------------------------- MODULE TransactionsProofs -------------------------
(***************************************************************************)
(* Proofs about LockTable and Transactions, for any transactions, keys,    *)
(* snapshots and clock.                                                    *)
(*                                                                         *)
(* 0. The lock table: locks are exclusive, _held agrees with the table,    *)
(* wounded transactions hold nothing, and there is no deadlock.            *)
(*                                                                         *)
(* 1. What holds whatever the callers do, aborts inside another call of    *)
(* the transaction included: locks exclude each other, there is no         *)
(* deadlock, commit timestamps grow and are not early, and commit-wait     *)
(* outlasts them.                                                          *)
(*                                                                         *)
(* 2. Two-phase locking with wounds makes the manager serializable.        *)
(* A transaction that is not wounded holds the exclusive lock of every key *)
(* it has read, and of every key it writes from LocksComplete on           *)
(* (LocksInv); wounds and its own release are the only ways to lose one    *)
(* (LocksStay), and nobody is wounded while its writes are applied.  So    *)
(* nobody writes a key that somebody alive has read (ApplyExcludes): its   *)
(* answer stays the newest value of the others until it commits, with a    *)
(* timestamp above theirs (Current), and what is written later has a later *)
(* timestamp (SerialAt).                                                   *)
(*                                                                         *)
(* 3. What read-only transactions at LastTS() see, and that no update is   *)
(* lost.  Both need the newest version of a set to exist and to be one: a  *)
(* key has finitely many versions, with different timestamps               *)
(* (OrderlyStore).  A session's timestamp is a safe time (Session): the    *)
(* commits that returned before it are in the store below it, those that   *)
(* choose later are above it, and only those in between can still change   *)
(* its answers.                                                            *)
(***************************************************************************)
EXTENDS Transactions, FiniteSetTheorems, WellFoundedInduction, TLAPS

-----------------------------------------------------------------------------
(* 0. The lock table *)

(* The thread of a committing transaction is outside the table. *)
CommittingAwake == \A t \in committing : phase[t] = "running"

LockInv ==
    /\ LockTypeOK
    /\ Exclusion
    /\ HeldMatchesLocks
    /\ WoundedIsPowerless
    /\ CommittingAwake
    /\ SleepsBehindOlder

(* While _held agrees with the table, the release helper _release_locked,
   which goes by _held, removes exactly the locks of the released
   transactions. *)
LEMMA StripRemovesAll ==
    ASSUME LockTypeOK, HeldMatchesLocks, NEW S \in SUBSET Txns
    PROVE  /\ ReadersWithout(S) = [k \in Keys |-> readers[k] \ S]
           /\ WriterWithout(S) =
                 [k \in Keys |-> IF writer[k] \in S THEN NoTxn ELSE writer[k]]
           /\ HeldWithout(S) \in [Txns -> SUBSET Keys]
<1>1. \A k \in Keys, r \in Txns : r \in readers[k] => k \in held[r]
    BY DEF HeldMatchesLocks
<1>2. \A k \in Keys, r \in Txns : writer[k] = r => k \in held[r]
    BY DEF HeldMatchesLocks
<1>3. \A k \in Keys : {r \in readers[k] : ~(r \in S /\ k \in held[r])} = readers[k] \ S
    BY <1>1 DEF LockTypeOK
<1>4. \A k \in Keys : (\E h \in S : writer[k] = h /\ k \in held[h]) <=> writer[k] \in S
    BY <1>2
<1>5. ReadersWithout(S) = [k \in Keys |-> readers[k] \ S]
    BY <1>3 DEF ReadersWithout
<1>6. WriterWithout(S) = [k \in Keys |-> IF writer[k] \in S THEN NoTxn ELSE writer[k]]
    BY <1>4 DEF WriterWithout
<1>7. HeldWithout(S) \in [Txns -> SUBSET Keys]
    BY DEF HeldWithout, LockTypeOK
<1> QED BY <1>5, <1>6, <1>7

(* Blockers and victims are other transactions that hold the wanted key. *)
LEMMA BlockersHold ==
    ASSUME LockTypeOK, NEW t \in Txns, want[t] \in Requests
    PROVE  /\ want[t].key \in Keys
           /\ Blockers(t) \subseteq Txns \ {t}
           /\ Victims(t) \subseteq Blockers(t)
           /\ \A h \in Blockers(t) :
                 h \in readers[want[t].key] \/ writer[want[t].key] = h
BY DEF LockTypeOK, Blockers, Victims, Requests, NoTxn

(* The table after the locks of S are stripped and S is wounded: what Take
   and Block do before they grant or sleep. *)
LEMMA StripKeepsTable ==
    ASSUME LockTypeOK, Exclusion, HeldMatchesLocks, NEW S \in SUBSET Txns,
           readers' = ReadersWithout(S), writer' = WriterWithout(S),
           held' = HeldWithout(S)
    PROVE  /\ Exclusion'
           /\ HeldMatchesLocks'
           /\ readers' \in [Keys -> SUBSET Txns]
           /\ writer' \in [Keys -> Txns \cup {NoTxn}]
           /\ held' \in [Txns -> SUBSET Keys]
<1>1. readers' = [k \in Keys |-> readers[k] \ S]
    BY StripRemovesAll
<1>2. writer' = [k \in Keys |-> IF writer[k] \in S THEN NoTxn ELSE writer[k]]
    BY StripRemovesAll
<1>3. held' = [t \in Txns |-> IF t \in S THEN {} ELSE held[t]]
    BY DEF HeldWithout
<1>4. NoTxn \notin Txns
    BY TxnsAssumption DEF NoTxn
<1>5. Exclusion'
    BY <1>1, <1>2 DEF Exclusion
<1>6. HeldMatchesLocks'
    <2> SUFFICES ASSUME NEW t \in Txns
                 PROVE  held'[t] = {k \in Keys : t \in readers'[k] \/ writer'[k] = t}
        BY DEF HeldMatchesLocks
    <2>1. held[t] = {k \in Keys : t \in readers[k] \/ writer[k] = t}
        BY DEF HeldMatchesLocks
    <2>2. CASE t \in S
        BY <2>2, <1>1, <1>2, <1>3, <1>4
    <2>3. CASE t \notin S
        <3>1. \A k \in Keys : (t \in readers'[k]) = (t \in readers[k])
            BY <2>3, <1>1
        <3>2. \A k \in Keys : (writer'[k] = t) = (writer[k] = t)
            BY <2>3, <1>2, <1>4
        <3> QED BY <2>1, <2>3, <3>1, <3>2, <1>3
    <2> QED BY <2>2, <2>3
<1>7. /\ readers' \in [Keys -> SUBSET Txns]
      /\ writer' \in [Keys -> Txns \cup {NoTxn}]
      /\ held' \in [Txns -> SUBSET Keys]
    BY <1>1, <1>2, StripRemovesAll DEF LockTypeOK
<1> QED BY <1>5, <1>6, <1>7

(* No sleeper: waking everyone makes the waiting clause vacuous. *)
LEMMA NotifiedNobodySleeps ==
    ASSUME LockTypeOK
    PROVE  /\ Notified \in [Txns -> Phases]
           /\ \A t \in Txns : Notified[t] # "asleep"
           /\ \A t \in Txns : phase[t] = "running" => Notified[t] = "running"
           /\ \A t \in Txns : Notified[t] \in {"trying", "asleep"}
                                 => phase[t] \in {"trying", "asleep"}
BY DEF LockTypeOK, Notified, Phases

LEMMA InitInv == LockInit => LockInv
<1> SUFFICES ASSUME LockInit PROVE LockInv
    OBVIOUS
<1> USE DEF LockInit
<1>1. LockTypeOK
    BY DEF LockTypeOK, NoTxn, Phases
<1>2. Exclusion /\ WoundedIsPowerless /\ CommittingAwake /\ SleepsBehindOlder
    BY DEF Exclusion, WoundedIsPowerless, CommittingAwake, SleepsBehindOlder
<1>3. HeldMatchesLocks
    BY TxnsAssumption DEF HeldMatchesLocks, NoTxn
<1> QED BY <1>1, <1>2, <1>3 DEF LockInv

LEMMA CallAcquireInv ==
    ASSUME LockInv, NEW t \in Txns, NEW r \in Requests, CallAcquire(t, r)
    PROVE  LockInv'
<1> USE DEF LockInv, CallAcquire, tableVars
<1>1. LockTypeOK'
    BY DEF LockTypeOK, Phases
<1>2. Exclusion' /\ HeldMatchesLocks'
    BY DEF Exclusion, HeldMatchesLocks
<1>3. WoundedIsPowerless' /\ CommittingAwake'
    BY DEF LockTypeOK, WoundedIsPowerless, CommittingAwake
<1>4. \A u \in Txns : phase'[u] = "asleep" => phase[u] = "asleep" /\ want'[u] = want[u]
    BY DEF LockTypeOK
<1>5. SleepsBehindOlder'
    BY <1>4 DEF SleepsBehindOlder, Blockers, Older
<1> QED BY <1>1, <1>2, <1>3, <1>5

LEMMA RaiseWoundedInv ==
    ASSUME LockInv, NEW t \in Txns, RaiseWounded(t)
    PROVE  LockInv'
<1> USE DEF LockInv, RaiseWounded, Return, tableVars
<1>1. LockTypeOK'
    BY DEF LockTypeOK, Phases
<1>2. Exclusion' /\ HeldMatchesLocks'
    BY DEF Exclusion, HeldMatchesLocks
<1>3. WoundedIsPowerless' /\ CommittingAwake'
    BY DEF LockTypeOK, WoundedIsPowerless, CommittingAwake
<1>4. \A u \in Txns : phase'[u] = "asleep" => phase[u] = "asleep" /\ want'[u] = want[u]
    BY DEF LockTypeOK
<1>5. SleepsBehindOlder'
    BY <1>4 DEF SleepsBehindOlder, Blockers, Older
<1> QED BY <1>1, <1>2, <1>3, <1>5

(* What the wounds of a loop body leave: victims hold nothing, nobody who is
   committing is wounded, and if anyone was wounded nobody sleeps. *)
LEMMA WoundsKeepPower ==
    ASSUME LockInv, NEW t \in Txns, want[t] \in Requests,
           wounded' = wounded \cup Victims(t),
           held' = HeldWithout(Victims(t)), committing' = committing
    PROVE  WoundedIsPowerless'
BY BlockersHold DEF LockInv, WoundedIsPowerless, HeldWithout, Victims, LockTypeOK

LEMMA TakeInv ==
    ASSUME LockInv, NEW t \in Txns, Take(t)
    PROVE  LockInv'
<1> DEFINE k == want[t].key
           V == Victims(t)
           R == ReadersWithout(V)
           W == WriterWithout(V)
           H == HeldWithout(V)
<1>1. want[t] \in Requests /\ k \in Keys /\ V \in SUBSET Txns /\ t \notin V
    BY BlockersHold DEF LockInv, LockTypeOK, Take
<1>2. NoTxn \notin Txns /\ t # NoTxn
    BY TxnsAssumption DEF NoTxn
<1>3. R = [j \in Keys |-> readers[j] \ V]
    BY <1>1, StripRemovesAll DEF LockInv
<1>4. W = [j \in Keys |-> IF writer[j] \in V THEN NoTxn ELSE writer[j]]
    BY <1>1, StripRemovesAll DEF LockInv
<1>5. H = [u \in Txns |-> IF u \in V THEN {} ELSE held[u]]
    BY DEF HeldWithout
<1>6. W[k] \in {NoTxn, t} /\ (want[t].mode = "write" => R[k] \subseteq {t})
    <2>1. Blockers(t) = V
        BY DEF Take
    <2>2. writer[k] \in V \cup {NoTxn, t}
        BY <2>1 DEF Blockers
    <2>3. want[t].mode = "write" => readers[k] \subseteq V \cup {t}
        BY <2>1 DEF Blockers
    <2> QED BY <1>1, <1>3, <1>4, <2>2, <2>3
<1>7. held' = [H EXCEPT ![t] = @ \cup {k}]
    BY DEF Take
<1>8. /\ readers' = IF want[t].mode = "read" THEN [R EXCEPT ![k] = @ \cup {t}] ELSE R
      /\ writer' = IF want[t].mode = "read" THEN W ELSE [W EXCEPT ![k] = t]
    BY DEF Take
<1>9. phase' \in [Txns -> Phases]
    BY NotifiedNobodySleeps DEF LockInv, LockTypeOK, Take, NotifiedIfWounding, Phases
<1>10. LockTypeOK'
    <2>1. readers' \in [Keys -> SUBSET Txns] /\ writer' \in [Keys -> Txns \cup {NoTxn}]
        BY <1>1, <1>3, <1>4, <1>8 DEF LockInv, LockTypeOK
    <2>2. held' \in [Txns -> SUBSET Keys]
        BY <1>1, <1>5, <1>7 DEF LockInv, LockTypeOK
    <2>3. wounded' \in SUBSET Txns /\ committing' \in SUBSET Txns
        BY <1>1 DEF LockInv, LockTypeOK, Take
    <2>4. want' \in [Txns -> Requests \cup {NoRequest}] /\ expired' \in [Txns -> BOOLEAN]
        BY DEF LockInv, LockTypeOK, Take, Return
    <2>5. \A u \in Txns : phase'[u] \in {"trying", "asleep"} => want'[u] \in Requests
        BY NotifiedNobodySleeps
        DEF LockInv, LockTypeOK, Take, NotifiedIfWounding, Return
    <2> QED BY <1>9, <2>1, <2>2, <2>3, <2>4, <2>5 DEF LockTypeOK
<1>11. Exclusion'
    <2> SUFFICES ASSUME NEW j \in Keys, writer'[j] # NoTxn
                 PROVE  readers'[j] \subseteq {writer'[j]}
        BY DEF Exclusion
    <2>1. W[j] # NoTxn => R[j] \subseteq {W[j]}
        BY <1>1, <1>2, <1>3, <1>4 DEF LockInv, LockTypeOK, Exclusion
    <2>2. CASE want[t].mode = "read"
        <3>1. readers'[j] = IF j = k THEN R[j] \cup {t} ELSE R[j]
            BY <2>2, <1>3, <1>8
        <3>2. writer'[j] = W[j]
            BY <2>2, <1>8
        <3> QED BY <2>1, <3>1, <3>2, <1>6
    <2>3. CASE want[t].mode # "read"
        <3>1. readers'[j] = R[j] /\ writer'[j] = IF j = k THEN t ELSE W[j]
            BY <2>3, <1>4, <1>8
        <3>2. want[t].mode = "write"
            BY <2>3, <1>1 DEF Requests, Modes
        <3> QED BY <2>1, <3>1, <3>2, <1>6
    <2> QED BY <2>2, <2>3
<1>12. HeldMatchesLocks'
    <2> SUFFICES ASSUME NEW u \in Txns, NEW j \in Keys
                 PROVE  (j \in held'[u]) <=> (u \in readers'[j] \/ writer'[j] = u)
        BY <1>10 DEF HeldMatchesLocks, LockTypeOK
    <2>1. (j \in held[u]) <=> (u \in readers[j] \/ writer[j] = u)
        BY DEF LockInv, HeldMatchesLocks
    <2>2. (j \in H[u]) <=> (u \in R[j] \/ W[j] = u)
        BY <2>1, <1>1, <1>2, <1>3, <1>4, <1>5
    <2>3. CASE u = t /\ j = k
        <3>1. k \in held'[t]
            BY <1>1, <1>5, <1>7
        <3>2. CASE want[t].mode = "read"
            BY <2>3, <3>1, <3>2, <1>1, <1>3, <1>8
        <3>3. CASE want[t].mode # "read"
            BY <2>3, <3>1, <3>3, <1>1, <1>4, <1>8
        <3> QED BY <3>2, <3>3
    <2>4. CASE u # t
        <3>1. held'[u] = H[u]
            BY <2>4, <1>5, <1>7
        <3>2. (u \in readers'[j]) <=> (u \in R[j])
            BY <2>4, <1>3, <1>8
        <3>3. (writer'[j] = u) <=> (W[j] = u)
            BY <2>4, <1>2, <1>4, <1>6, <1>8
        <3> QED BY <2>2, <3>1, <3>2, <3>3
    <2>5. CASE u = t /\ j # k
        <3>1. (j \in held'[u]) <=> (j \in H[u])
            BY <2>5, <1>5, <1>7
        <3>2. readers'[j] = R[j] /\ writer'[j] = W[j]
            BY <2>5, <1>3, <1>4, <1>8
        <3> QED BY <2>2, <3>1, <3>2
    <2> QED BY <2>3, <2>4, <2>5
<1>13. WoundedIsPowerless'
    <2>1. t \notin wounded /\ wounded' = wounded \cup V /\ committing' = committing
        BY DEF Take
    <2>2. \A u \in wounded' : held'[u] = H[u] /\ H[u] = {}
        BY <2>1, <1>1, <1>5, <1>7 DEF LockInv, LockTypeOK, WoundedIsPowerless
    <2>3. \A u \in wounded' : u \notin committing
        BY <2>1 DEF LockInv, WoundedIsPowerless, Victims
    <2> QED BY <2>1, <2>2, <2>3 DEF WoundedIsPowerless
<1>14. CommittingAwake'
    BY NotifiedNobodySleeps
    DEF LockInv, LockTypeOK, CommittingAwake, Take, NotifiedIfWounding
<1>15. SleepsBehindOlder'
    <2> SUFFICES ASSUME NEW u \in Txns, phase'[u] = "asleep"
                 PROVE  \E h \in Blockers(u)' : Older(h, u) \/ h \in committing'
        BY DEF SleepsBehindOlder, Older
    <2>1. V = {} /\ u # t /\ phase[u] = "asleep"
        BY NotifiedNobodySleeps DEF LockInv, LockTypeOK, Take, NotifiedIfWounding
    <2>2. readers \in [Keys -> SUBSET Txns] /\ writer \in [Keys -> Txns \cup {NoTxn}]
        BY DEF LockInv, LockTypeOK
    <2>3. R = readers /\ W = writer
        BY <2>1, <2>2, <1>3, <1>4
    <2>4. want'[u] = want[u] /\ committing' = committing /\ want[u].key \in Keys
        BY <2>1, BlockersHold DEF Take, Return, LockInv, LockTypeOK
    <2>5. PICK h \in Blockers(u) : Older(h, u) \/ h \in committing
        BY <2>1 DEF LockInv, SleepsBehindOlder
    <2>6. h \in readers[want[u].key] => h \in readers'[want[u].key]
        BY <2>2, <2>3, <2>4, <1>1, <1>8
    <2>7. h = writer[want[u].key] /\ h # NoTxn => writer'[want[u].key] = h
        BY <2>2, <2>3, <2>4, <1>1, <1>6, <1>8
    <2>8. h \in Blockers(u)'
        BY <2>4, <2>5, <2>6, <2>7 DEF Blockers
    <2> QED BY <2>4, <2>5, <2>8
<1> QED BY <1>10, <1>11, <1>12, <1>13, <1>14, <1>15 DEF LockInv

LEMMA BlockInv ==
    ASSUME LockInv, NEW t \in Txns, Block(t)
    PROVE  LockInv'
<1> DEFINE V == Victims(t)
<1>1. want[t] \in Requests /\ V \in SUBSET Txns /\ t \notin V
    BY BlockersHold DEF LockInv, LockTypeOK, Block
<1>2. readers' = ReadersWithout(V) /\ writer' = WriterWithout(V) /\ held' = HeldWithout(V)
    BY DEF Block
<1>3. Exclusion' /\ HeldMatchesLocks'
    BY <1>1, <1>2, StripKeepsTable DEF LockInv
<1>4. LockTypeOK'
    <2>1. /\ readers' \in [Keys -> SUBSET Txns]
          /\ writer' \in [Keys -> Txns \cup {NoTxn}]
          /\ held' \in [Txns -> SUBSET Keys]
        BY <1>1, <1>2, StripKeepsTable DEF LockInv
    <2>2. phase' \in [Txns -> Phases]
        BY NotifiedNobodySleeps DEF LockInv, LockTypeOK, Block, NotifiedIfWounding, Phases
    <2>3. wounded' \in SUBSET Txns /\ committing' \in SUBSET Txns
        BY <1>1 DEF LockInv, LockTypeOK, Block
    <2>4. want' \in [Txns -> Requests \cup {NoRequest}] /\ expired' \in [Txns -> BOOLEAN]
        BY DEF LockInv, LockTypeOK, Block, Return
    <2>5. \A u \in Txns : phase'[u] \in {"trying", "asleep"} => want'[u] \in Requests
        BY <1>1, NotifiedNobodySleeps
        DEF LockInv, LockTypeOK, Block, NotifiedIfWounding, Return
    <2> QED BY <2>1, <2>2, <2>3, <2>4, <2>5 DEF LockTypeOK
<1>5. WoundedIsPowerless'
    BY <1>1, <1>2, WoundsKeepPower DEF Block
<1>6. CommittingAwake'
    BY NotifiedNobodySleeps
    DEF LockInv, LockTypeOK, CommittingAwake, Block, NotifiedIfWounding
<1>7. SleepsBehindOlder'
    <2> SUFFICES ASSUME NEW u \in Txns, phase'[u] = "asleep"
                 PROVE  \E h \in Blockers(u)' : Older(h, u) \/ h \in committing'
        BY DEF SleepsBehindOlder, Older
    <2>1. readers' = [j \in Keys |-> readers[j] \ V]
        BY <1>1, <1>2, StripRemovesAll DEF LockInv
    <2>2. writer' = [j \in Keys |-> IF writer[j] \in V THEN NoTxn ELSE writer[j]]
        BY <1>1, <1>2, StripRemovesAll DEF LockInv
    <2>3. committing' = committing
        BY DEF Block
    <2>4. CASE u = t
        <3>1. want' = want
            <4>1. NotifiedIfWounding(t) \in [Txns -> Phases]
                BY NotifiedNobodySleeps DEF LockInv, LockTypeOK, NotifiedIfWounding
            <4> QED BY <4>1, <2>4 DEF Block
        <3>2. PICK h \in Blockers(t) : h \notin V
            BY BlockersHold, <1>1 DEF Block, LockInv
        <3>3. h \in Nat /\ t \in Nat /\ h # t
            BY <3>2, <1>1, BlockersHold, TxnsAssumption DEF LockInv
        <3>4. Older(h, t) \/ h \in committing
            BY <3>2, <3>3 DEF Victims, Older
        <3>5. h \in Blockers(t)'
            BY <3>1, <3>2, <2>1, <2>2, <1>1, BlockersHold DEF Blockers, LockInv
        <3> QED BY <2>3, <2>4, <3>4, <3>5
    <2>5. CASE u # t
        <3>1. V = {} /\ phase[u] = "asleep"
            BY <2>5, NotifiedNobodySleeps DEF LockInv, LockTypeOK, Block, NotifiedIfWounding
        <3>2. want'[u] = want[u]
            BY <2>5 DEF Block, Return, LockInv, LockTypeOK
        <3>3. readers' = readers /\ writer' = writer
            BY <3>1, <2>1, <2>2 DEF LockInv, LockTypeOK
        <3>4. Blockers(u)' = Blockers(u)
            BY <3>2, <3>3 DEF Blockers
        <3> QED BY <3>1, <3>4, <2>3 DEF LockInv, SleepsBehindOlder
    <2> QED BY <2>4, <2>5
<1> QED BY <1>3, <1>4, <1>5, <1>6, <1>7 DEF LockInv

LEMMA DeadlinePassesInv ==
    ASSUME LockInv, NEW t \in Txns, DeadlinePasses(t)
    PROVE  LockInv'
<1> USE DEF LockInv, DeadlinePasses, tableVars
<1>1. LockTypeOK'
    BY DEF LockTypeOK, Phases
<1>2. Exclusion' /\ HeldMatchesLocks'
    BY DEF Exclusion, HeldMatchesLocks
<1>3. WoundedIsPowerless' /\ CommittingAwake'
    BY DEF LockTypeOK, WoundedIsPowerless, CommittingAwake
<1>4. \A u \in Txns : phase'[u] = "asleep" => phase[u] = "asleep" /\ want'[u] = want[u]
    BY DEF LockTypeOK
<1>5. SleepsBehindOlder'
    BY <1>4 DEF SleepsBehindOlder, Blockers, Older
<1> QED BY <1>1, <1>2, <1>3, <1>5

LEMMA EnterCommitInv ==
    ASSUME LockInv, NEW t \in Txns, EnterCommit(t)
    PROVE  LockInv'
<1> USE DEF LockInv, EnterCommit
<1>1. LockTypeOK'
    BY DEF LockTypeOK
<1>2. Exclusion' /\ HeldMatchesLocks'
    BY DEF Exclusion, HeldMatchesLocks
<1>3. WoundedIsPowerless' /\ CommittingAwake'
    BY DEF WoundedIsPowerless, CommittingAwake
<1>4. SleepsBehindOlder'
    BY DEF SleepsBehindOlder, Blockers, Older
<1> QED BY <1>1, <1>2, <1>3, <1>4

(* A release by the transaction's own thread, or by another one. *)
LEMMA ReleaseTableInv ==
    ASSUME LockInv, NEW t \in Txns, ReleaseTable(t), UNCHANGED <<want, expired>>,
           phase' = Notified \/ phase' = [Notified EXCEPT ![t] = "done"]
    PROVE  LockInv'
<1> USE DEF LockInv, ReleaseTable
<1>1. Exclusion' /\ HeldMatchesLocks'
    BY StripKeepsTable
<1>2. LockTypeOK'
    <2>1. /\ readers' \in [Keys -> SUBSET Txns]
          /\ writer' \in [Keys -> Txns \cup {NoTxn}]
          /\ held' \in [Txns -> SUBSET Keys]
        BY StripKeepsTable
    <2>2. phase' \in [Txns -> Phases]
        BY NotifiedNobodySleeps DEF LockTypeOK, Phases
    <2> QED BY <2>1, <2>2, NotifiedNobodySleeps DEF LockTypeOK
<1>3. WoundedIsPowerless'
    BY DEF WoundedIsPowerless, HeldWithout, LockTypeOK
<1>4. CommittingAwake'
    BY NotifiedNobodySleeps DEF CommittingAwake, LockTypeOK
<1>5. SleepsBehindOlder'
    BY NotifiedNobodySleeps DEF SleepsBehindOlder, LockTypeOK
<1> QED BY <1>1, <1>2, <1>3, <1>4, <1>5

LEMMA ReleaseAllInv ==
    ASSUME LockInv, NEW t \in Txns, ReleaseAll(t)
    PROVE  LockInv'
BY ReleaseTableInv DEF ReleaseAll

LEMMA NextInv == LockInv /\ [LockNext]_lockVars => LockInv'
<1> SUFFICES ASSUME LockInv, [LockNext]_lockVars PROVE LockInv'
    OBVIOUS
<1>1. CASE UNCHANGED lockVars
    BY <1>1 DEF lockVars, LockInv, LockTypeOK, Exclusion, HeldMatchesLocks,
                WoundedIsPowerless, CommittingAwake, SleepsBehindOlder, Blockers, Older
<1>2. ASSUME NEW t \in Txns, NEW r \in Requests, CallAcquire(t, r) PROVE LockInv'
    BY <1>2, CallAcquireInv
<1>3. ASSUME NEW t \in Txns, Try(t) PROVE LockInv'
    BY <1>3, RaiseWoundedInv, TakeInv, BlockInv DEF Try
<1>4. ASSUME NEW t \in Txns, DeadlinePasses(t) PROVE LockInv'
    BY <1>4, DeadlinePassesInv
<1>5. ASSUME NEW t \in Txns, EnterCommit(t) PROVE LockInv'
    BY <1>5, EnterCommitInv
<1>6. ASSUME NEW t \in Txns, ReleaseAll(t) PROVE LockInv'
    BY <1>6, ReleaseAllInv
<1> QED BY <1>1, <1>2, <1>3, <1>4, <1>5, <1>6 DEF LockNext, AllDone

(* In every behaviour of the lock table the inductive invariant holds. *)
THEOREM LockInvariant == LockSpec => []LockInv
<1>1. LockInit => LockInv
    BY InitInv
<1>2. LockInv /\ [LockNext]_lockVars => LockInv'
    BY NextInv
<1> QED BY <1>1, <1>2, PTL DEF LockSpec

(* A writer's lock excludes every other lock on its key (acquire_read,
   acquire_write, wounds and releases in any order). *)
THEOREM ExclusionHolds == LockSpec => []Exclusion
BY LockInvariant, PTL DEF LockInv

(* A wounded transaction holds no lock and is not committing: the two phases
   of _wounded and _committing never overlap. *)
THEOREM WoundedIsPowerlessHolds == LockSpec => []WoundedIsPowerless
BY LockInvariant, PTL DEF LockInv

(* release_all and the wounds go by _held: it names exactly the locks in the
   table, so none is leaked and none is taken from a bystander. *)
THEOREM HeldMatchesLocksHolds == LockSpec => []HeldMatchesLocks
BY LockInvariant, PTL DEF LockInv

(* No wake-up is lost: whoever sleeps has an older or a committing holder to
   wait for, after any order of grants, wounds, time-outs and releases. *)
THEOREM SleepsBehindOlderHolds == LockSpec => []SleepsBehindOlder
BY LockInvariant, PTL DEF LockInv

(* The oldest sleeping transaction: ages are well ordered. *)
LEMMA OldestSleeper ==
    ASSUME NEW S \in SUBSET Txns, S # {}
    PROVE  \E t \in S : \A u \in S : ~Older(u, t)
<1>1. IsWellFoundedOn(OpToRel(<, Nat), Nat)
    BY NatLessThanWellFounded
<1>2. S \subseteq Nat
    BY TxnsAssumption
<1>3. PICK t \in S : \A u \in S : ~(<<u, t>> \in OpToRel(<, Nat))
    BY <1>1, <1>2, WFMin
<1>4. \A u \in S : u < t => <<u, t>> \in OpToRel(<, Nat)
    BY <1>2, <1>3 DEF OpToRel
<1> QED BY <1>3, <1>4 DEF Older

(* Whenever a thread sleeps, a lock is held by a transaction whose thread is
   not asleep: the oldest sleeper waits for such a one. *)
LEMMA InvImpliesNoDeadlock == LockInv => NoDeadlock
<1> SUFFICES ASSUME LockInv, NEW s \in Txns, phase[s] = "asleep"
             PROVE  \E h \in Txns : phase[h] # "asleep" /\ held[h] # {}
    BY DEF NoDeadlock
<1> DEFINE Sleepers == {t \in Txns : phase[t] = "asleep"}
<1>1. PICK t \in Sleepers : \A u \in Sleepers : ~Older(u, t)
    BY OldestSleeper
<1>2. PICK h \in Blockers(t) : Older(h, t) \/ h \in committing
    BY <1>1 DEF LockInv, SleepsBehindOlder
<1>3. want[t] \in Requests
    BY <1>1 DEF LockInv, LockTypeOK
<1>4. h \in Txns /\ held[h] # {}
    BY <1>2, <1>3, BlockersHold DEF LockInv, HeldMatchesLocks
<1>5. phase[h] # "asleep"
    BY <1>1, <1>2, <1>4 DEF LockInv, CommittingAwake
<1> QED BY <1>4, <1>5

(* Wound-wait never deadlocks (module header of lock_table.py). *)
THEOREM DeadlockFreedom == LockSpec => []NoDeadlock
BY LockInvariant, InvImpliesNoDeadlock, PTL

(* From enter_commit to release_all nobody can take a lock away from a
   committing transaction. *)
THEOREM CommitFenceHolds == LockSpec => CommitFence
<1>1. ASSUME LockInv, [LockNext]_lockVars, NEW t \in Txns,
             t \in committing, t \in committing'
      PROVE  held'[t] = held[t]
    <2> USE <1>1
    <2>1. phase[t] = "running" /\ held \in [Txns -> SUBSET Keys]
        BY DEF LockInv, CommittingAwake, LockTypeOK
    <2>2. ASSUME NEW u \in Txns, Take(u) \/ Block(u) PROVE held'[t] = held[t]
        BY <2>1, <2>2 DEF Take, Block, HeldWithout, Victims
    <2>3. ASSUME NEW u \in Txns, ReleaseAll(u) PROVE held'[t] = held[t]
        BY <2>1, <2>3 DEF ReleaseAll, ReleaseTable, HeldWithout
    <2> QED BY <2>2, <2>3 DEF LockNext, lockVars, tableVars, AllDone, CallAcquire, Try,
                             RaiseWounded, DeadlinePasses, EnterCommit
<1>2. LockInv /\ [LockNext]_lockVars
        => [\A t \in Txns : t \in committing /\ t \in committing'
                               => held'[t] = held[t]]_lockVars
    BY <1>1
<1> QED BY <1>2, LockInvariant, PTL DEF LockSpec, CommitFence

(* The interval of the clock contains absolute time; timestamps assigned
   only grow; a commit past its wait has a timestamp in the past. *)
TimeInv ==
    /\ -eps <= skew /\ skew <= eps
    /\ \A t \in Txns : TsLeq(cts[t], lastAssigned)
    /\ \A t \in Txns : step[t] \in {"entering", "applying"} => cts[t][1] < now
    /\ VisibleInThePast

BaseInv == LockInv /\ TxnTypeOK /\ TimeInv

-----------------------------------------------------------------------------
(* The order of timestamps *)

LEMMA TsTotal ==
    ASSUME NEW a \in Stamps, NEW b \in Stamps
    PROVE  /\ TsLess(a, b) \/ a = b \/ TsLess(b, a)
           /\ ~(TsLess(a, b) /\ TsLeq(b, a))
           /\ TsLeq(a, b) => a[1] <= b[1]
BY DEF TsLess, TsLeq, Stamps

LEMMA TsTransitive ==
    ASSUME NEW a \in Stamps, NEW b \in Stamps, NEW c \in Stamps
    PROVE  /\ TsLess(a, b) /\ TsLeq(b, c) => TsLess(a, c)
           /\ TsLeq(a, b) /\ TsLess(b, c) => TsLess(a, c)
           /\ TsLeq(a, b) /\ TsLeq(b, c) => TsLeq(a, c)
BY DEF TsLess, TsLeq, Stamps

(* A commit locks its keys in increasing order: there is a least one. *)
LEMMA LeastKey ==
    ASSUME NEW S \in SUBSET Keys, S # {}
    PROVE  Min(S) \in S
<1>1. S \subseteq Nat
    BY KeysAssumption
<1>2. PICK x \in S : \A y \in S : ~(<<y, x>> \in OpToRel(<, Nat))
    BY <1>1, WFMin, NatLessThanWellFounded
<1>3. \A y \in S : x =< y
    <2>1. TAKE y \in S
    <2>2. y \in Nat /\ x \in Nat
        BY <1>1
    <2>3. ~(y < x)
        BY <1>2, <2>2 DEF OpToRel
    <2> QED BY <2>2, <2>3
<1> QED BY <1>3 DEF Min

-----------------------------------------------------------------------------
(* The manager and the lock table *)

(* The calls that the thread of a transaction makes to the lock table. *)
LockCall(t) ==
    \/ \E r \in Requests : CallAcquire(t, r)
    \/ Try(t) \/ DeadlinePasses(t) \/ EnterCommit(t) \/ ReleaseAll(t)

(* Every step of a transaction is one call to the lock table or leaves it
   alone, except an abort that races with another call. *)
LEMMA StepCallsTable ==
    ASSUME TxnTypeOK, NEW t \in Txns, TxnStep(t), ~AbortRace(t)
    PROVE  LockCall(t) \/ UNCHANGED lockVars
<1>1. ASSUME NEW k \in Keys, Get(t, k) PROVE LockCall(t)
    <2>1. [key |-> k, mode |-> "write"] \in Requests
        BY DEF Requests, Modes
    <2> QED BY <1>1, <2>1 DEF Get, LockCall
<1>2. CASE LockNextKey(t)
    <2>1. [key |-> Min(pending[t]), mode |-> "write"] \in Requests
        BY <1>2, LeastKey DEF LockNextKey, TxnTypeOK, Requests, Modes
    <2> QED BY <1>2, <2>1 DEF LockNextKey, LockCall
<1>3. CASE Granted(t) \/ Refused(t) \/ Sleep(t)
    BY <1>3 DEF Granted, Refused, Sleep, LockCall, Try
<1>4. CASE WaitTooLong(t)
    BY <1>4 DEF WaitTooLong, LockCall
<1>5. CASE EnterApply(t)
    BY <1>5 DEF EnterApply, LockCall
<1>6. CASE Finalize(t) \/ Abort(t)
    BY <1>6 DEF Finalize, Abort, Finish, LockCall
<1>7. ASSUME NEW k \in Keys, ReadLocked(t, k) \/ Put(t, k) \/ Apply(t, k)
      PROVE  UNCHANGED lockVars
    BY <1>7 DEF ReadLocked, Put, Apply
<1>8. CASE \/ Commit(t) \/ LocksComplete(t) \/ Choose(t) \/ CommitWaitOver(t)
           \/ CommitFails(t) \/ AdvanceSafeTime(t)
    BY <1>8 DEF Commit, LocksComplete, Choose, CommitWaitOver, CommitFails, AdvanceSafeTime
<1> QED BY <1>1, <1>2, <1>3, <1>4, <1>5, <1>6, <1>7, <1>8 DEF TxnStep, CommitStep

(* So every step is a step of the table's specification, or that abort. *)
LEMMA StepUsesTable ==
    ASSUME TxnTypeOK, [Next]_vars
    PROVE  [LockNext]_lockVars \/ \E t \in Txns : AbortRace(t)
<1>1. CASE UNCHANGED vars
    BY <1>1 DEF vars
<1>2. CASE Tick \/ ClockAdjust \/ Finished
    BY <1>2 DEF Tick, ClockAdjust, Finished, vars
<1>3. ASSUME NEW r \in Snapshots,
             BeginReadOnly(r) \/ BeginReadAt(r) \/ \E k \in Keys : SnapshotRead(r, k)
      PROVE  UNCHANGED lockVars
    BY <1>3 DEF BeginReadOnly, BeginReadAt, SnapshotRead, OpenSnapshot
<1>4. ASSUME NEW t \in Txns, LockCall(t) PROVE LockNext
    BY <1>4 DEF LockCall, LockNext
<1> QED BY <1>1, <1>2, <1>3, <1>4, StepCallsTable DEF Next

(* The invariant of the table survives an abort from outside as well. *)
LEMMA LocksKept == LockInv /\ TxnTypeOK /\ [Next]_vars => LockInv'
<1> SUFFICES ASSUME LockInv, TxnTypeOK, [Next]_vars PROVE LockInv'
    OBVIOUS
<1>1. ASSUME NEW t \in Txns, AbortRace(t) PROVE LockInv'
    BY <1>1, ReleaseTableInv DEF AbortRace
<1> QED BY <1>1, StepUsesTable, NextInv

(* What Granted and Refused do, without their IFs. *)
LEMMA GrantedEffect ==
    ASSUME NEW t \in Txns, Granted(t)
    PROVE  /\ Take(t)
           /\ UNCHANGED <<now, eps, skew, tstate, active, writes, seen, cts>>
           /\ UNCHANGED <<lastAssigned, lastCommit, store>>
           /\ \/ /\ step[t] = "getting"
                 /\ step' = [step EXCEPT ![t] = "reading"]
                 /\ pending' = [pending EXCEPT ![t] = {want[t].key}]
              \/ /\ step[t] # "getting"
                 /\ step' = step
                 /\ pending' = [pending EXCEPT ![t] = @ \ {want[t].key}]
<1>1. CASE step[t] = "getting"
    BY <1>1, Zenon DEF Granted, Goto, clockVars, mgrVars
<1>2. CASE step[t] # "getting"
    BY <1>2, Zenon DEF Granted, Goto, clockVars, mgrVars
<1> QED BY <1>1, <1>2, Zenon

LEMMA RefusedEffect ==
    ASSUME NEW t \in Txns, Refused(t)
    PROVE  /\ RaiseWounded(t) \/ (Block(t) /\ expired[t])
           /\ UNCHANGED <<now, eps, skew, active, writes, cts>>
           /\ UNCHANGED <<lastAssigned, lastCommit, store>>
           /\ \/ /\ step[t] = "getting"
                 /\ step' = [step EXCEPT ![t] = IF ServerAccess THEN "idle" ELSE "quitting"]
                 /\ seen' = [seen EXCEPT ![t][want[t].key] =
                                IF ServerAccess /\ @ = NotRead THEN NoTxn ELSE @]
                 /\ UNCHANGED <<tstate, pending>>
              \/ /\ step[t] # "getting"
                 /\ step' = [step EXCEPT ![t] = "finalizing"]
                 /\ tstate' = [tstate EXCEPT ![t] = "aborted"]
                 /\ pending' = [pending EXCEPT ![t] = {}]
                 /\ seen' = seen
<1>1. CASE step[t] = "getting"
    BY <1>1, Zenon DEF Refused, Goto, clockVars, mgrVars
<1>2. CASE step[t] # "getting"
    BY <1>2, Zenon DEF Refused, Goto, clockVars, mgrVars
<1> QED BY <1>1, <1>2, Zenon

LEMMA TypesKept == LockTypeOK /\ TxnTypeOK /\ [Next]_vars => TxnTypeOK'
<1> SUFFICES ASSUME LockTypeOK, TxnTypeOK, [Next]_vars PROVE TxnTypeOK'
    OBVIOUS
<1> USE DEF TxnTypeOK
<1>1. CASE UNCHANGED vars
    BY <1>1 DEF vars, txnVars, mgrVars, clockVars
<1>2. CASE Tick \/ ClockAdjust \/ Finished
    BY <1>2, EpsAssumption DEF Tick, ClockAdjust, Finished, vars, txnVars, mgrVars, clockVars
<1>3. ASSUME NEW r \in Snapshots,
             BeginReadOnly(r) \/ BeginReadAt(r) \/ \E k \in Keys : SnapshotRead(r, k)
      PROVE  TxnTypeOK'
    <2>1. UNCHANGED <<clockVars, txnVars, mgrVars>>
        BY <1>3 DEF BeginReadOnly, BeginReadAt, SnapshotRead, OpenSnapshot
    <2> QED BY <2>1 DEF txnVars, mgrVars, clockVars
<1>4. ASSUME NEW t \in Txns, TxnStep(t) PROVE TxnTypeOK'
    <2> USE DEF Goto, Steps
    <2>1. ASSUME NEW k \in Keys, Get(t, k) PROVE TxnTypeOK'
        BY <2>1 DEF Get, mgrVars, clockVars
    <2>2. ASSUME NEW k \in Keys, ReadLocked(t, k) PROVE TxnTypeOK'
        BY <2>2 DEF ReadLocked, mgrVars, clockVars
    <2>3. ASSUME NEW k \in Keys, Put(t, k) PROVE TxnTypeOK'
        BY <2>3 DEF Put, mgrVars, clockVars
    <2>4. CASE Commit(t)
        BY <2>4 DEF Commit, mgrVars, clockVars
    <2>5. CASE LockNextKey(t) \/ Sleep(t) \/ WaitTooLong(t)
        BY <2>5 DEF LockNextKey, Sleep, WaitTooLong, txnVars, mgrVars, clockVars
    <2>6. CASE LocksComplete(t)
        BY <2>6 DEF LocksComplete, mgrVars, clockVars
    <2>7. CASE CommitWaitOver(t)
        BY <2>7 DEF CommitWaitOver, mgrVars, clockVars
    <2>8. CASE CommitFails(t)
        BY <2>8 DEF CommitFails, mgrVars, clockVars
    <2>9. CASE EnterApply(t)
        BY <2>9 DEF EnterApply, mgrVars, clockVars
    <2>10. CASE Granted(t)
        <3>1. want[t].key \in Keys
            BY <2>10, GrantedEffect DEF Take, LockTypeOK, Requests
        <3>2. UNCHANGED <<now, eps, skew, tstate, active, writes, seen, cts,
                          lastAssigned, lastCommit, store>>
            BY <2>10, GrantedEffect
        <3>3. step' = [step EXCEPT ![t] = "reading"] \/ step' = step
            BY <2>10, GrantedEffect
        <3>4. \/ pending' = [pending EXCEPT ![t] = {want[t].key}]
              \/ pending' = [pending EXCEPT ![t] = @ \ {want[t].key}]
            BY <2>10, GrantedEffect
        <3>5. step' \in [Txns -> Steps]
            BY <3>3
        <3>6. pending' \in [Txns -> SUBSET Keys]
            BY <3>1, <3>4
        <3> QED BY <3>2, <3>5, <3>6
    <2>11. CASE Refused(t)
        <3>1. UNCHANGED <<now, eps, skew, active, writes, cts, lastAssigned, lastCommit, store>>
            BY <2>11, RefusedEffect
        <3>2. step' \in [Txns -> Steps] /\ pending' \in [Txns -> SUBSET Keys]
            BY <2>11, RefusedEffect
        <3>3. tstate' \in [Txns -> {"active", "preparing", "committed", "aborted"}]
            BY <2>11, RefusedEffect
        <3>4. seen' = [u \in Txns |-> [k \in Keys |-> seen'[u][k]]]
            BY <2>11, RefusedEffect
        <3> QED BY <3>1, <3>2, <3>3, <3>4
    <2>12. CASE Choose(t)
        <3>1. <<Latest, 0>> \in Stamps
            BY DEF Stamps, Latest, Physical
        <3>2. <<lastAssigned[1], lastAssigned[2] + 1>> \in Stamps
            BY DEF Stamps
        <3> QED BY <2>12, <3>1, <3>2 DEF Choose, clockVars
    <2>13. ASSUME NEW k \in Keys, Apply(t, k) PROVE TxnTypeOK'
        <3>1. [by |-> t, ts |-> cts[t]] \in Versions
            BY DEF Versions
        <3> QED BY <2>13, <3>1 DEF Apply, clockVars
    <2>14. CASE AdvanceSafeTime(t)
        BY <2>14 DEF AdvanceSafeTime, clockVars
    <2>15. CASE Finalize(t)
        BY <2>15 DEF Finalize, Finish, mgrVars, clockVars
    <2>16. CASE Abort(t)
        BY <2>16 DEF Abort, Finish, mgrVars, clockVars
    <2>17. CASE AbortRace(t)
        BY <2>17 DEF AbortRace, mgrVars, clockVars
    <2> QED BY <1>4, <2>1, <2>2, <2>3, <2>4, <2>5, <2>6, <2>7, <2>8, <2>9, <2>10, <2>11,
               <2>12, <2>13, <2>14, <2>15, <2>16, <2>17 DEF TxnStep, CommitStep
<1> QED BY <1>1, <1>2, <1>3, <1>4 DEF Next

-----------------------------------------------------------------------------
(* Time *)

(* The steps that neither assign a timestamp nor bring a commit nearer to the
   store. *)
LEMMA QuietSteps ==
    ASSUME TxnTypeOK, NEW t \in Txns, TxnStep(t), ~Choose(t), ~CommitWaitOver(t),
           ~EnterApply(t), \A k \in Keys : ~Apply(t, k)
    PROVE  /\ UNCHANGED <<now, eps, skew, cts, lastAssigned, store>>
           /\ \A u \in Txns : step'[u] \in {"entering", "applying"} => step'[u] = step[u]
<1> USE DEF Goto, mgrVars, clockVars, TxnTypeOK
<1>1. ASSUME NEW k \in Keys, Get(t, k) \/ ReadLocked(t, k) \/ Put(t, k)
      PROVE  /\ UNCHANGED <<now, eps, skew, cts, lastAssigned, store>>
             /\ \A u \in Txns : step'[u] \in {"entering", "applying"} => step'[u] = step[u]
    BY <1>1 DEF Get, ReadLocked, Put
<1>2. CASE Commit(t)
    BY <1>2 DEF Commit
<1>3. CASE LockNextKey(t) \/ Sleep(t) \/ WaitTooLong(t)
    BY <1>3 DEF LockNextKey, Sleep, WaitTooLong, txnVars
<1>4. CASE LocksComplete(t)
    BY <1>4 DEF LocksComplete
<1>5. CASE CommitFails(t)
    BY <1>5 DEF CommitFails
<1>6. CASE Granted(t)
    <2>1. step' = [step EXCEPT ![t] = "reading"] \/ step' = step
        BY <1>6, GrantedEffect
    <2>2. UNCHANGED <<now, eps, skew, cts, lastAssigned, store>>
        BY <1>6, GrantedEffect
    <2> QED BY <2>1, <2>2
<1>7. CASE Refused(t)
    <2>1. \/ step' = [step EXCEPT ![t] = IF ServerAccess THEN "idle" ELSE "quitting"]
          \/ step' = [step EXCEPT ![t] = "finalizing"]
        BY <1>7, RefusedEffect
    <2>2. UNCHANGED <<now, eps, skew, cts, lastAssigned, store>>
        BY <1>7, RefusedEffect
    <2> QED BY <2>1, <2>2
<1>8. CASE AdvanceSafeTime(t)
    BY <1>8 DEF AdvanceSafeTime
<1>9. CASE Finalize(t) \/ Abort(t)
    BY <1>9 DEF Finalize, Abort, Finish
<1>10. CASE AbortRace(t)
    BY <1>10 DEF AbortRace
<1> QED BY <1>1, <1>2, <1>3, <1>4, <1>5, <1>6, <1>7, <1>8, <1>9, <1>10 DEF TxnStep, CommitStep

(* The timestamp that Choose assigns. *)
LEMMA ChosenStamp ==
    ASSUME TxnTypeOK, TimeInv, NEW t \in Txns, Choose(t)
    PROVE  /\ cts' = [cts EXCEPT ![t] = lastAssigned'] /\ lastAssigned' \in Stamps
           /\ lastAssigned'[1] >= now /\ TsLess(lastAssigned, lastAssigned')
<1> DEFINE fresh == <<Latest, 0>>
           next == <<lastAssigned[1], lastAssigned[2] + 1>>
<1> USE DEF TxnTypeOK
<1>1. fresh \in Stamps /\ next \in Stamps /\ fresh[1] = Latest /\ next[1] = lastAssigned[1]
    BY DEF Stamps, Latest, Physical
<1>2. Latest \in Int /\ Latest >= now
    BY DEF Latest, Physical, TimeInv
<1>3. TsLess(lastAssigned, next)
    BY DEF TsLess, Stamps
<1>4. /\ cts' = [cts EXCEPT ![t] = lastAssigned']
      /\ lastAssigned' = IF TsLeq(fresh, lastAssigned) THEN next ELSE fresh
    BY DEF Choose
<1>5. CASE TsLeq(fresh, lastAssigned)
    <2>1. fresh[1] <= lastAssigned[1]
        BY <1>1, <1>5, TsTotal
    <2>2. lastAssigned[1] >= now
        BY <1>1, <1>2, <2>1 DEF Stamps
    <2> QED BY <1>1, <1>3, <1>4, <1>5, <2>2
<1>6. CASE ~TsLeq(fresh, lastAssigned)
    <2>1. TsLess(lastAssigned, fresh)
        BY <1>1, <1>6, TsTotal DEF TsLeq
    <2> QED BY <1>1, <1>2, <1>4, <1>6, <2>1
<1> QED BY <1>5, <1>6

LEMMA TimeKept == TxnTypeOK /\ TimeInv /\ [Next]_vars => TimeInv'
<1> SUFFICES ASSUME TxnTypeOK, TimeInv, [Next]_vars PROVE TimeInv'
    OBVIOUS
<1> USE DEF TxnTypeOK
<1>1. ASSUME UNCHANGED <<now, eps, skew, cts, lastAssigned, store>>,
             \A t \in Txns : step'[t] \in {"entering", "applying"} => step'[t] = step[t]
      PROVE  TimeInv'
    BY <1>1 DEF TimeInv, VisibleInThePast, TsLeq, TsLess
<1>2. CASE UNCHANGED vars \/ Finished
    BY <1>1, <1>2 DEF vars, txnVars, mgrVars, clockVars, Finished
<1>3. CASE Tick
    <2>1. now' = now + 1 /\ UNCHANGED <<eps, skew, cts, step, lastAssigned, store>>
        BY <1>3 DEF Tick, txnVars, mgrVars
    <2>2. \A t \in Txns : cts[t][1] \in Int
        BY DEF Stamps
    <2>3. \A k \in Keys : \A v \in store[k] : v.ts[1] \in Int
        BY DEF Stamps, Versions
    <2> QED BY <2>1, <2>2, <2>3 DEF TimeInv, VisibleInThePast, TsLeq, TsLess
<1>4. CASE ClockAdjust
    <2>1. /\ eps' \in Int /\ -eps' <= skew' /\ skew' <= eps'
          /\ UNCHANGED <<now, cts, step, lastAssigned, store>>
        BY <1>4, EpsAssumption DEF ClockAdjust, txnVars, mgrVars
    <2> QED BY <2>1 DEF TimeInv, VisibleInThePast, TsLeq, TsLess
<1>5. ASSUME NEW r \in Snapshots,
             BeginReadOnly(r) \/ BeginReadAt(r) \/ \E k \in Keys : SnapshotRead(r, k)
      PROVE  TimeInv'
    BY <1>1, <1>5 DEF BeginReadOnly, BeginReadAt, SnapshotRead, OpenSnapshot,
                      txnVars, mgrVars, clockVars
<1>6. ASSUME NEW t \in Txns, TxnStep(t) PROVE TimeInv'
    <2> USE DEF Goto
    <2>1. CASE Choose(t)
        <3>1. /\ cts' = [cts EXCEPT ![t] = lastAssigned'] /\ lastAssigned' \in Stamps
              /\ TsLess(lastAssigned, lastAssigned')
            BY <2>1, ChosenStamp
        <3>2. step' = [step EXCEPT ![t] = "waiting"] /\ UNCHANGED <<now, eps, skew, store>>
            BY <2>1 DEF Choose, clockVars
        <3>3. \A u \in Txns : TsLeq(cts'[u], lastAssigned')
            <4>1. TAKE u \in Txns
            <4>2. CASE u = t
                BY <3>1, <4>2 DEF TsLeq
            <4>3. CASE u # t
                BY <3>1, <4>3, TsTransitive DEF TimeInv, TsLeq
            <4> QED BY <4>2, <4>3
        <3>4. \A u \in Txns : step'[u] \in {"entering", "applying"} => cts'[u][1] < now'
            BY <3>1, <3>2 DEF TimeInv
        <3>5. VisibleInThePast' /\ -eps' <= skew' /\ skew' <= eps'
            BY <3>2 DEF TimeInv, VisibleInThePast
        <3>6. (\A u \in Txns : TsLeq(cts[u], lastAssigned))'
            BY <3>3 DEF TsLeq, TsLess
        <3> QED BY <3>4, <3>5, <3>6 DEF TimeInv
    <2>2. CASE CommitWaitOver(t)
        <3>1. /\ step' = [step EXCEPT ![t] = "entering"]
              /\ UNCHANGED <<now, eps, skew, cts, lastAssigned, store>>
            BY <2>2 DEF CommitWaitOver, clockVars, mgrVars
        <3>2. cts[t][1] < now
            BY <2>2 DEF CommitWaitOver, After, Earliest, Physical, TimeInv, Stamps
        <3> QED BY <3>1, <3>2 DEF TimeInv, VisibleInThePast, TsLeq, TsLess
    <2>3. CASE EnterApply(t)
        <3>1. /\ step[t] = "entering" /\ step' = [step EXCEPT ![t] = "applying"]
              /\ UNCHANGED <<now, eps, skew, cts, lastAssigned, store>>
            BY <2>3 DEF EnterApply, clockVars, mgrVars
        <3> QED BY <3>1 DEF TimeInv, VisibleInThePast, TsLeq, TsLess
    <2>4. ASSUME NEW k \in Keys, Apply(t, k) PROVE TimeInv'
        <3>1. /\ step[t] = "applying" /\ UNCHANGED <<now, eps, skew, cts, step, lastAssigned>>
              /\ store' = [store EXCEPT ![k] = @ \cup {[by |-> t, ts |-> cts[t]]}]
            BY <2>4 DEF Apply, clockVars
        <3>2. cts[t][1] < now
            BY <3>1 DEF TimeInv
        <3>3. VisibleInThePast'
            BY <3>1, <3>2 DEF TimeInv, VisibleInThePast
        <3> QED BY <3>1, <3>3 DEF TimeInv, TsLeq, TsLess
    <2> QED BY <1>1, <1>6, <2>1, <2>2, <2>3, <2>4, QuietSteps
<1> QED BY <1>2, <1>3, <1>4, <1>5, <1>6 DEF Next

LEMMA BaseInit == Init => BaseInv
<1> SUFFICES ASSUME Init PROVE BaseInv
    OBVIOUS
<1>1. LockInv
    BY InitInv DEF Init
<1>2. NoTs \in Stamps /\ <<0, 0>> \in Stamps /\ TsLeq(NoTs, NoTs) /\ TsLeq(NoTs, <<0, 0>>)
    BY DEF NoTs, Stamps, TsLeq, TsLess
<1>3. TxnTypeOK
    BY <1>2, EpsAssumption DEF Init, TxnTypeOK, Steps
<1>4. -eps <= skew /\ skew <= eps
    BY EpsAssumption DEF Init
<1>5. \A t \in Txns : TsLeq(cts[t], lastAssigned)
    BY <1>2 DEF Init
<1>6. \A t \in Txns : step[t] = "idle"
    BY DEF Init
<1>7. VisibleInThePast
    BY DEF Init, VisibleInThePast
<1> QED BY <1>1, <1>3, <1>4, <1>5, <1>6, <1>7 DEF BaseInv, TimeInv

LEMMA BaseNext == BaseInv /\ [Next]_vars => BaseInv'
BY LocksKept, TypesKept, TimeKept DEF BaseInv, LockInv

(* What holds of the manager however its callers, its clock and its store
   behave. *)
THEOREM BaseInvariant == Spec => []BaseInv
<1>1. Init => BaseInv
    BY BaseInit
<1>2. BaseInv /\ [Next]_vars => BaseInv'
    BY BaseNext
<1> QED BY <1>1, <1>2, PTL DEF Spec

(* Locks exclude each other also under the manager, which aborts a transaction
   while another call of it is inside the table (abort has no check). *)
THEOREM ExclusionUnderManager == Spec => []Exclusion
BY BaseInvariant, PTL DEF BaseInv, LockInv

(* The manager's calls never deadlock in the lock table, aborts from outside
   included. *)
THEOREM NoDeadlockUnderManager == Spec => []NoDeadlock
<1>1. BaseInv => NoDeadlock
    BY InvImpliesNoDeadlock DEF BaseInv
<1> QED BY <1>1, BaseInvariant, PTL

(* Commit-wait: a version is visible only once its timestamp has passed in
   absolute time, whatever the offset and the uncertainty of the clock have
   been. *)
THEOREM VisibleInThePastHolds == Spec => []VisibleInThePast
BY BaseInvariant, PTL DEF BaseInv, TimeInv

(* _choose_commit_timestamp: a commit timestamp is not before the moment it is
   chosen and above every other, also after the clock has stepped back. *)
THEOREM TimestampsNotEarlyHolds == Spec => TimestampsNotEarly
<1>1. ASSUME BaseInv, [Next]_vars, NEW t \in Txns, cts'[t] # cts[t]
      PROVE  cts'[t][1] >= now /\ \A u \in Txns \ {t} : TsLess(cts[u], cts'[t])
    <2> USE <1>1 DEF BaseInv, TxnTypeOK
    <2>1. PICK u \in Txns : TxnStep(u)
        BY DEF Next, Tick, ClockAdjust, Finished, vars, txnVars, BeginReadOnly, BeginReadAt,
               SnapshotRead, OpenSnapshot
    <2>2. ~CommitWaitOver(u) /\ ~EnterApply(u) /\ \A k \in Keys : ~Apply(u, k)
        BY DEF CommitWaitOver, EnterApply, Apply
    <2>3. Choose(u)
        BY <2>1, <2>2, QuietSteps
    <2>4. /\ cts' = [cts EXCEPT ![u] = lastAssigned'] /\ lastAssigned' \in Stamps
          /\ lastAssigned'[1] >= now /\ TsLess(lastAssigned, lastAssigned')
        BY <2>3, ChosenStamp
    <2>5. u = t /\ cts'[t] = lastAssigned'
        BY <2>4
    <2>6. \A w \in Txns : TsLess(cts[w], lastAssigned')
        BY <2>4, TsTransitive DEF TimeInv
    <2> QED BY <2>4, <2>5, <2>6
<1>2. BaseInv /\ [Next]_vars
        => [\A t \in Txns : cts'[t] # cts[t] =>
              cts'[t][1] >= now /\ \A u \in Txns \ {t} : TsLess(cts[u], cts'[t])]_vars
    BY <1>1
<1> QED BY <1>2, BaseInvariant, PTL DEF Spec, TimestampsNotEarly

-----------------------------------------------------------------------------
(* 2. Serializability *)

(* The thread is inside the lock table. *)
InTable(t) == phase[t] \in {"trying", "asleep"}

(* The thread of a finished transaction has left nothing in the table. *)
DoneInv ==
    \A t \in Txns : phase[t] = "done" => held[t] = {} /\ t \notin wounded \cup committing

(* How the program point of a transaction goes with the table. *)
Control(t) ==
    /\ InTable(t) => want[t].mode = "write" /\ step[t] \in {"getting", "locking"}
    /\ step[t] = "getting" => InTable(t)
    /\ phase[t] = "done" <=> step[t] = "over"
    /\ t \in active <=> step[t] # "over"
    /\ t \in committing => step[t] \in {"applying", "finalizing"}
    /\ step[t] = "applying" => t \in committing
    /\ tstate[t] = "committed" => step[t] \in {"finalizing", "over"}

ControlInv == \A t \in Txns : Control(t)

-----------------------------------------------------------------------------
(* The lock table *)

(* A call of one transaction leaves the others where they are, except that it
   may wake or wound them. *)
LEMMA OthersUndisturbed ==
    ASSUME LockInv, NEW t \in Txns, LockCall(t), NEW u \in Txns, u # t
    PROVE  /\ want'[u] = want[u]
           /\ InTable(u)' <=> InTable(u)
           /\ phase'[u] = "done" <=> phase[u] = "done"
           /\ u \in committing' <=> u \in committing
<1> USE DEF LockInv, LockTypeOK, InTable, Return
<1>1. \A w \in Txns : /\ Notified[w] \in {"trying", "asleep"} <=> InTable(w)
                      /\ Notified[w] = "done" <=> phase[w] = "done"
    BY DEF Notified
<1>2. Notified \in [Txns -> Phases]
    BY NotifiedNobodySleeps
<1>3. ASSUME NEW r \in Requests, CallAcquire(t, r)
      PROVE  /\ want'[u] = want[u] /\ phase'[u] = phase[u] /\ committing' = committing
    BY <1>3 DEF CallAcquire, tableVars
<1>4. CASE RaiseWounded(t)
    BY <1>4 DEF RaiseWounded, tableVars
<1>5. CASE Take(t) \/ Block(t)
    <2>1. want'[u] = want[u] /\ committing' = committing
        BY <1>5 DEF Take, Block
    <2>2. phase'[u] = phase[u] \/ phase'[u] = Notified[u]
        BY <1>2, <1>5 DEF Take, Block, NotifiedIfWounding
    <2> QED BY <1>1, <2>1, <2>2
<1>6. CASE DeadlinePasses(t)
    BY <1>6 DEF DeadlinePasses, tableVars
<1>7. CASE EnterCommit(t)
    BY <1>7 DEF EnterCommit
<1>8. CASE ReleaseAll(t)
    <2>1. want' = want /\ phase'[u] = Notified[u] /\ committing' = committing \ {t}
        BY <1>2, <1>8 DEF ReleaseAll, ReleaseTable
    <2> QED BY <1>1, <2>1
<1> QED BY <1>3, <1>4, <1>5, <1>6, <1>7, <1>8 DEF LockCall, Try

(* Only a wound or its own release takes an exclusive lock from a transaction. *)
LEMMA LocksStay ==
    ASSUME LockInv, [LockNext]_lockVars, NEW t \in Txns, t \notin wounded', phase'[t] # "done"
    PROVE  t \notin wounded /\ \A k \in Keys : writer[k] = t => writer'[k] = t
<1> USE DEF LockInv
<1>1. CASE UNCHANGED lockVars \/ AllDone
    BY <1>1 DEF lockVars, AllDone
<1>2. ASSUME NEW u \in Txns, \E r \in Requests : CallAcquire(u, r)
      PROVE  UNCHANGED <<wounded, writer>>
    BY <1>2 DEF CallAcquire, tableVars
<1>3. ASSUME NEW u \in Txns, RaiseWounded(u) \/ DeadlinePasses(u) \/ EnterCommit(u)
      PROVE  UNCHANGED <<wounded, writer>>
    BY <1>3 DEF RaiseWounded, DeadlinePasses, EnterCommit, tableVars
<1>4. ASSUME NEW u \in Txns, Take(u) \/ Block(u)
      PROVE  t \notin wounded /\ \A k \in Keys : writer[k] = t => writer'[k] = t
    <2>1. want[u] \in Requests /\ Victims(u) \in SUBSET Txns
        BY <1>4, BlockersHold DEF LockTypeOK, Take, Block
    <2>2. wounded' = wounded \cup Victims(u)
        BY <1>4 DEF Take, Block
    <2>3. t \notin wounded /\ t \notin Victims(u)
        BY <2>2
    <2>4. \A k \in Keys : writer[k] = t => WriterWithout(Victims(u))[k] = t
        BY <2>1, <2>3, StripRemovesAll
    <2>5. CASE Block(u)
        BY <2>3, <2>4, <2>5 DEF Block
    <2>6. CASE Take(u) /\ want[u].mode = "read"
        BY <2>3, <2>4, <2>6 DEF Take
    <2>7. CASE Take(u) /\ want[u].mode # "read"
        <3>1. writer' = [WriterWithout(Victims(u)) EXCEPT ![want[u].key] = u]
            BY <2>7 DEF Take
        <3>2. t = u \/ writer[want[u].key] # t
            BY <2>3, <2>7, TxnsAssumption DEF Take, Blockers, NoTxn
        <3>3. \A k \in Keys : k = want[u].key \/ writer'[k] = WriterWithout(Victims(u))[k]
            BY <3>1 DEF WriterWithout
        <3>4. writer'[want[u].key] = u
            BY <3>1, <2>1, BlockersHold DEF WriterWithout
        <3> QED BY <2>3, <2>4, <3>2, <3>3, <3>4
    <2> QED BY <1>4, <2>5, <2>6, <2>7
<1>5. ASSUME NEW u \in Txns, ReleaseAll(u)
      PROVE  t \notin wounded /\ \A k \in Keys : writer[k] = t => writer'[k] = t
    <2>1. u # t
        BY <1>5, NotifiedNobodySleeps DEF ReleaseAll
    <2>2. t \notin wounded /\ writer' = WriterWithout({u})
        BY <1>5, <2>1 DEF ReleaseAll, ReleaseTable
    <2> QED BY <2>1, <2>2, StripRemovesAll
<1> QED BY <1>1, <1>2, <1>3, <1>4, <1>5 DEF LockNext, Try

(* What is finished stays finished. *)
LEMMA DoneKept == LockInv /\ DoneInv /\ [LockNext]_lockVars => DoneInv'
<1> SUFFICES ASSUME LockInv, DoneInv, [LockNext]_lockVars, NEW t \in Txns, phase'[t] = "done"
             PROVE  held'[t] = {} /\ t \notin wounded' \cup committing'
    BY DEF DoneInv
<1> USE DEF LockInv, LockTypeOK, DoneInv
<1>1. CASE UNCHANGED lockVars \/ AllDone
    BY <1>1 DEF lockVars, AllDone
<1>2. ASSUME NEW u \in Txns, ReleaseAll(u), u = t
      PROVE  held'[t] = {} /\ t \notin wounded' \cup committing'
    BY <1>2 DEF ReleaseAll, ReleaseTable, HeldWithout
<1>3. ASSUME NEW u \in Txns, LockCall(u), ~(ReleaseAll(u) /\ u = t)
      PROVE  phase[t] = "done" /\ u # t
    <2>1. CASE u # t
        BY <1>3, <2>1, OthersUndisturbed
    <2>2. CASE u = t
        BY <1>3, <2>2, NotifiedNobodySleeps
        DEF LockCall, CallAcquire, Try, RaiseWounded, Take, Block, DeadlinePasses, EnterCommit,
            NotifiedIfWounding
    <2> QED BY <2>1, <2>2
<1>4. ASSUME NEW u \in Txns, LockCall(u), phase[t] = "done", u # t
      PROVE  held'[t] = {} /\ t \notin wounded' \cup committing'
    <2>1. held[t] = {} /\ t \notin wounded \cup committing
        BY <1>4
    <2>2. CASE Take(u) \/ Block(u)
        <3>1. want[u] \in Requests
            BY <2>2 DEF Take, Block
        <3>2. t \notin Victims(u)
            BY <2>1, <3>1, BlockersHold DEF HeldMatchesLocks
        <3> QED BY <1>4, <2>1, <2>2, <3>2 DEF Take, Block, HeldWithout
    <2>3. CASE ReleaseAll(u)
        BY <2>1, <2>3 DEF ReleaseAll, ReleaseTable, HeldWithout
    <2> QED BY <1>4, <2>1, <2>2, <2>3 DEF LockCall, CallAcquire, Try, RaiseWounded,
                DeadlinePasses, EnterCommit, tableVars
<1> QED BY <1>1, <1>2, <1>3, <1>4 DEF LockNext, LockCall

-----------------------------------------------------------------------------
(* Program points *)

(* A step of one transaction leaves the records of the others alone. *)
LEMMA OtherRecords ==
    ASSUME TxnTypeOK, NEW t \in Txns, TxnStep(t), NEW u \in Txns, u # t
    PROVE  /\ step'[u] = step[u] /\ tstate'[u] = tstate[u] /\ pending'[u] = pending[u]
           /\ writes'[u] = writes[u] /\ seen'[u] = seen[u] /\ cts'[u] = cts[u]
           /\ u \in active' <=> u \in active
<1> USE DEF TxnTypeOK, Goto, txnVars
<1>1. ASSUME NEW k \in Keys, Get(t, k) \/ Put(t, k) \/ Apply(t, k)
      PROVE  /\ step'[u] = step[u] /\ tstate'[u] = tstate[u] /\ pending'[u] = pending[u]
             /\ writes'[u] = writes[u] /\ seen'[u] = seen[u] /\ cts'[u] = cts[u]
             /\ u \in active' <=> u \in active
    BY <1>1 DEF Get, Put, Apply
<1>2. ASSUME NEW k \in Keys, ReadLocked(t, k)
      PROVE  /\ step'[u] = step[u] /\ tstate'[u] = tstate[u] /\ pending'[u] = pending[u]
             /\ writes'[u] = writes[u] /\ seen'[u] = seen[u] /\ cts'[u] = cts[u]
             /\ u \in active' <=> u \in active
    BY <1>2 DEF ReadLocked
<1>3. CASE LockNextKey(t) \/ Sleep(t) \/ WaitTooLong(t)
    BY <1>3 DEF LockNextKey, Sleep, WaitTooLong
<1>4. CASE Commit(t) \/ LocksComplete(t) \/ CommitWaitOver(t) \/ CommitFails(t)
    BY <1>4 DEF Commit, LocksComplete, CommitWaitOver, CommitFails
<1>5. CASE EnterApply(t) \/ AdvanceSafeTime(t) \/ Choose(t)
    BY <1>5 DEF EnterApply, AdvanceSafeTime, Choose
<1>6. CASE Granted(t)
    <2>1. UNCHANGED <<tstate, active, writes, seen, cts>>
        BY <1>6, GrantedEffect
    <2>2. step' = [step EXCEPT ![t] = "reading"] \/ step' = step
        BY <1>6, GrantedEffect
    <2>3. \/ pending' = [pending EXCEPT ![t] = {want[t].key}]
          \/ pending' = [pending EXCEPT ![t] = @ \ {want[t].key}]
        BY <1>6, GrantedEffect
    <2> QED BY <2>1, <2>2, <2>3
<1>7. CASE Refused(t)
    <2>1. UNCHANGED <<active, writes, cts>>
        BY <1>7, RefusedEffect
    <2>2. step'[u] = step[u] /\ tstate'[u] = tstate[u]
        BY <1>7, RefusedEffect
    <2>3. pending'[u] = pending[u] /\ seen'[u] = seen[u]
        BY <1>7, RefusedEffect
    <2> QED BY <2>1, <2>2, <2>3
<1>8. CASE Finalize(t) \/ Abort(t)
    BY <1>8 DEF Finalize, Abort, Finish
<1>9. CASE AbortRace(t)
    BY <1>9 DEF AbortRace
<1> QED BY <1>1, <1>2, <1>3, <1>4, <1>5, <1>6, <1>7, <1>8, <1>9 DEF TxnStep, CommitStep

(* Each step keeps its transaction's program point in step with the table. *)
LEMMA OwnControl ==
    ASSUME BaseInv, ControlInv, NEW t \in Txns, TxnStep(t), ~AbortRace(t)
    PROVE  Control(t)'
<1> USE DEF BaseInv, LockInv, LockTypeOK, TxnTypeOK, Control, ControlInv, InTable, Goto
<1>1. ASSUME NEW k \in Keys, Get(t, k) PROVE Control(t)'
    BY <1>1 DEF Get, Callable, CallAcquire, tableVars
<1>2. ASSUME NEW k \in Keys, ReadLocked(t, k) PROVE Control(t)'
    BY <1>2 DEF ReadLocked, lockVars
<1>3. ASSUME NEW k \in Keys, Put(t, k) PROVE Control(t)'
    BY <1>3 DEF Put, lockVars
<1>4. CASE Commit(t)
    BY <1>4 DEF Commit, Callable, lockVars
<1>5. CASE LockNextKey(t)
    BY <1>5 DEF LockNextKey, CallAcquire, tableVars, txnVars
<1>6. CASE LocksComplete(t) \/ Choose(t) \/ CommitWaitOver(t)
    BY <1>6 DEF LocksComplete, Choose, CommitWaitOver, lockVars
<1>7. CASE CommitFails(t)
    BY <1>7 DEF CommitFails, lockVars
<1>8. CASE EnterApply(t)
    BY <1>8 DEF EnterApply, EnterCommit
<1>9. ASSUME NEW k \in Keys, Apply(t, k) PROVE Control(t)'
    BY <1>9 DEF Apply, lockVars
<1>10. CASE AdvanceSafeTime(t)
    BY <1>10 DEF AdvanceSafeTime, lockVars
<1>11. CASE Finalize(t) \/ Abort(t)
    BY <1>11, NotifiedNobodySleeps DEF Finalize, Abort, Finish, ReleaseAll, ReleaseTable
<1>12. CASE Sleep(t)
    BY <1>12, NotifiedNobodySleeps DEF Sleep, Block, NotifiedIfWounding, txnVars
<1>13. CASE WaitTooLong(t)
    BY <1>13 DEF WaitTooLong, DeadlinePasses, tableVars, txnVars
<1>14. CASE Granted(t)
    <2>1. phase[t] = "trying" /\ phase'[t] = "running" /\ UNCHANGED <<tstate, active, committing>>
        BY <1>14, GrantedEffect, NotifiedNobodySleeps DEF Take, NotifiedIfWounding
    <2>2. \/ step[t] = "getting" /\ step'[t] = "reading"
          \/ step[t] # "getting" /\ step'[t] = step[t]
        BY <1>14, GrantedEffect
    <2> QED BY <2>1, <2>2
<1>15. CASE Refused(t)
    <2>1. phase[t] = "trying" /\ phase'[t] = "running" /\ UNCHANGED <<active, committing>>
        BY <1>15, RefusedEffect, NotifiedNobodySleeps
        DEF RaiseWounded, Block, NotifiedIfWounding, tableVars
    <2>2. \/ step'[t] \in {"idle", "quitting"} /\ tstate'[t] = tstate[t]
          \/ step'[t] = "finalizing" /\ tstate'[t] = "aborted"
        BY <1>15, RefusedEffect
    <2> QED BY <2>1, <2>2
<1> QED BY <1>1, <1>2, <1>3, <1>4, <1>5, <1>6, <1>7, <1>8, <1>9, <1>10, <1>11, <1>12,
           <1>13, <1>14, <1>15 DEF TxnStep, CommitStep

(* Time, the clock and the snapshots leave transactions and versions alone. *)
LEMMA StepsOfTxns ==
    [Next]_vars => (\E t \in Txns : TxnStep(t)) \/ UNCHANGED <<lockVars, txnVars, mgrVars>>
BY DEF Next, Tick, ClockAdjust, Finished, vars, BeginReadOnly, BeginReadAt, SnapshotRead,
       OpenSnapshot

LEMMA ControlKept ==
    ASSUME ConcurrentAbort = FALSE, BaseInv, ControlInv, [Next]_vars
    PROVE  ControlInv'
<1>1. CASE UNCHANGED <<lockVars, txnVars, mgrVars>>
    BY <1>1 DEF ControlInv, Control, InTable, lockVars, txnVars
<1>2. ASSUME NEW t \in Txns, TxnStep(t) PROVE ControlInv'
    <2>1. ~AbortRace(t)
        BY DEF AbortRace
    <2>2. Control(t)'
        BY <1>2, <2>1, OwnControl
    <2>3. ASSUME NEW u \in Txns, u # t PROVE Control(u)'
        <3>1. /\ step'[u] = step[u] /\ tstate'[u] = tstate[u]
              /\ u \in active' <=> u \in active
            BY <1>2, <2>3, OtherRecords DEF BaseInv
        <3>2. /\ want'[u] = want[u]
              /\ InTable(u)' <=> InTable(u)
              /\ phase'[u] = "done" <=> phase[u] = "done"
              /\ u \in committing' <=> u \in committing
            <4>1. CASE LockCall(t)
                BY <2>3, <4>1, OthersUndisturbed DEF BaseInv
            <4>2. CASE UNCHANGED lockVars
                BY <4>2 DEF lockVars, InTable
            <4> QED BY <1>2, <2>1, <4>1, <4>2, StepCallsTable DEF BaseInv
        <3> QED BY <3>1, <3>2 DEF ControlInv, Control
    <2> QED BY <2>2, <2>3 DEF ControlInv
<1> QED BY <1>1, <1>2, StepsOfTxns

LEMMA ControlInit == Init => ControlInv /\ DoneInv
BY DEF Init, LockInit, ControlInv, Control, InTable, DoneInv

(* A transaction that was finalized, in whichever way its calls ended, has left
   no lock, no wound and no commit fence in the table. *)
THEOREM FinalizedHoldsNothingHolds ==
    ASSUME ConcurrentAbort = FALSE
    PROVE  Spec => []FinalizedHoldsNothing
<1> DEFINE I == BaseInv /\ ControlInv /\ DoneInv
<1>1. Init => I
    BY BaseInit, ControlInit
<1>2. I /\ [Next]_vars => I'
    <2> SUFFICES ASSUME I, [Next]_vars PROVE I'
        OBVIOUS
    <2>1. BaseInv' /\ ControlInv'
        BY BaseNext, ControlKept
    <2>2. [LockNext]_lockVars
        BY StepUsesTable DEF BaseInv, AbortRace
    <2> QED BY <2>1, <2>2, DoneKept DEF BaseInv
<1>3. I => FinalizedHoldsNothing
    BY DEF FinalizedHoldsNothing, ControlInv, Control, DoneInv
<1> QED BY <1>1, <1>2, <1>3, PTL DEF Spec

-----------------------------------------------------------------------------
(* Two-phase locking *)

(* The exclusive locks that a transaction holds unless it has been wounded:
   of every key it has read and, as its commit proceeds, of every key it
   writes. *)
Holds(t) ==
    t \notin wounded =>
        /\ \A k \in Keys : seen[t][k] # NotRead /\ step[t] # "over" => writer[k] = t
        /\ step[t] = "reading" => \A k \in pending[t] : writer[k] = t
        /\ step[t] = "locking" => \A k \in writes[t] \ pending[t] : writer[k] = t
        /\ step[t] \in {"choosing", "waiting", "entering", "applying"}
              => \A k \in writes[t] : writer[k] = t

LocksInv == \A t \in Txns : Holds(t)

(* Each step of a transaction that was not wounded keeps or gains its locks. *)
LEMMA OwnLocks ==
    ASSUME ServerAccess = FALSE, NEW t \in Txns, BaseInv, ControlInv, Holds(t), TxnStep(t),
           ~AbortRace(t), t \notin wounded, \A k \in Keys : writer[k] = t => writer'[k] = t,
           step'[t] # "over"
    PROVE  Holds(t)'
<1> USE DEF BaseInv, TxnTypeOK, Holds, Goto
<1>1. ASSUME NEW k \in Keys, Get(t, k) PROVE Holds(t)'
    BY <1>1 DEF Get, Callable
<1>2. ASSUME NEW k \in Keys, ReadLocked(t, k) PROVE Holds(t)'
    <2>1. step[t] = "reading" /\ pending[t] = {k} /\ step'[t] = "idle" /\ step[t] # "over"
        BY <1>2 DEF ReadLocked
    <2>2. \A j \in Keys : j # k => seen'[t][j] = seen[t][j]
        BY <1>2 DEF ReadLocked
    <2> QED BY <2>1, <2>2
<1>3. ASSUME NEW k \in Keys, Put(t, k) PROVE Holds(t)'
    BY <1>3 DEF Put, Callable
<1>4. CASE Commit(t)
    BY <1>4 DEF Commit, Callable
<1>5. CASE LockNextKey(t) \/ Sleep(t) \/ WaitTooLong(t)
    BY <1>5 DEF LockNextKey, Sleep, WaitTooLong, txnVars
<1>6. CASE LocksComplete(t)
    BY <1>6 DEF LocksComplete
<1>7. CASE Choose(t) \/ CommitWaitOver(t)
    BY <1>7 DEF Choose, CommitWaitOver
<1>8. CASE CommitFails(t)
    BY <1>8 DEF CommitFails
<1>9. CASE EnterApply(t)
    BY <1>9 DEF EnterApply
<1>10. ASSUME NEW k \in Keys, Apply(t, k) PROVE Holds(t)'
    BY <1>10 DEF Apply
<1>11. CASE AdvanceSafeTime(t)
    BY <1>11 DEF AdvanceSafeTime
<1>12. CASE Finalize(t) \/ Abort(t)
    BY <1>12 DEF Finalize, Abort, Finish
<1>13. CASE Granted(t)
    <2> DEFINE k == want[t].key
    <2>1. phase[t] = "trying" /\ want[t].mode = "write" /\ step[t] \in {"getting", "locking"}
        BY <1>13, GrantedEffect DEF Take, ControlInv, Control, InTable
    <2>2. k \in Keys
        BY <2>1, BlockersHold DEF LockInv, LockTypeOK
    <2>3. writer'[k] = t
        BY <1>13, <2>1, <2>2, GrantedEffect DEF Take, WriterWithout
    <2>4. UNCHANGED <<writes, seen>>
        BY <1>13, GrantedEffect
    <2>5. CASE step[t] = "getting"
        <3>1. step' = [step EXCEPT ![t] = "reading"] /\ pending' = [pending EXCEPT ![t] = {k}]
            BY <1>13, <2>5, GrantedEffect
        <3>2. step'[t] = "reading" /\ pending'[t] = {k} /\ step[t] # "over"
            BY <2>5, <3>1
        <3> QED BY <2>3, <2>4, <3>2
    <2>6. CASE step[t] = "locking"
        <3>1. step' = step /\ pending' = [pending EXCEPT ![t] = @ \ {k}]
            BY <1>13, <2>6, GrantedEffect
        <3>2. step'[t] = "locking" /\ step[t] = "locking" /\ pending'[t] = pending[t] \ {k}
            BY <2>6, <3>1
        <3> QED BY <2>3, <2>4, <3>2
    <2> QED BY <2>1, <2>5, <2>6
<1>14. CASE Refused(t)
    <2>1. \/ step' = [step EXCEPT ![t] = IF ServerAccess THEN "idle" ELSE "quitting"]
          \/ step' = [step EXCEPT ![t] = "finalizing"]
        BY <1>14, RefusedEffect
    <2>2. step[t] # "over" /\ step'[t] \in {"quitting", "finalizing"}
        BY <1>14, <2>1, RefusedEffect DEF RaiseWounded, Block, ControlInv, Control
    <2>3. \A k \in Keys : seen'[t][k] = seen[t][k]
        <3>1. CASE step[t] = "getting"
            <4>1. seen' = [seen EXCEPT ![t][want[t].key] =
                              IF ServerAccess /\ @ = NotRead THEN NoTxn ELSE @]
                BY <1>14, <3>1, RefusedEffect
            <4> QED BY <4>1
        <3>2. CASE step[t] # "getting"
            BY <1>14, <3>2, RefusedEffect
        <3> QED BY <3>1, <3>2
    <2> QED BY <2>2, <2>3
<1> QED BY <1>1, <1>2, <1>3, <1>4, <1>5, <1>6, <1>7, <1>8, <1>9, <1>10, <1>11, <1>12,
           <1>13, <1>14 DEF TxnStep, CommitStep

LEMMA HoldsKept ==
    ASSUME ConcurrentAbort = FALSE, ServerAccess = FALSE, BaseInv, ControlInv, LocksInv,
           [Next]_vars
    PROVE  LocksInv'
<1>1. CASE UNCHANGED <<lockVars, txnVars, mgrVars>>
    BY <1>1 DEF LocksInv, Holds, lockVars, txnVars
<1>2. ASSUME NEW t \in Txns, TxnStep(t), NEW u \in Txns PROVE Holds(u)'
    <2>1. ~AbortRace(t) /\ [LockNext]_lockVars /\ ControlInv'
        BY ControlKept, StepUsesTable DEF BaseInv, AbortRace
    <2>2. CASE step'[u] = "over" \/ u \in wounded'
        BY <2>2 DEF Holds
    <2>3. CASE step'[u] # "over" /\ u \notin wounded'
        <3>1. phase'[u] # "done"
            BY <2>1, <2>3 DEF ControlInv, Control
        <3>2. u \notin wounded /\ \A k \in Keys : writer[k] = u => writer'[k] = u
            BY <2>1, <2>3, <3>1, LocksStay DEF BaseInv
        <3>3. CASE u = t
            BY <1>2, <2>1, <2>3, <3>2, <3>3, OwnLocks DEF LocksInv
        <3>4. CASE u # t
            <4>1. /\ step'[u] = step[u] /\ pending'[u] = pending[u]
                  /\ writes'[u] = writes[u] /\ seen'[u] = seen[u]
                BY <1>2, <3>4, OtherRecords DEF BaseInv
            <4>2. Holds(u)
                BY DEF LocksInv
            <4>3. pending[u] \subseteq Keys /\ writes[u] \subseteq Keys
                BY DEF BaseInv, TxnTypeOK
            <4> QED BY <2>3, <3>2, <4>1, <4>2, <4>3 DEF Holds
        <3> QED BY <3>3, <3>4
    <2> QED BY <2>2, <2>3
<1> QED BY <1>1, <1>2, StepsOfTxns DEF LocksInv

LEMMA LocksInit == Init => LocksInv
BY DEF Init, LockInit, LocksInv, Holds

(* The fence of enter_commit: while a commit is applied, the transaction holds
   the exclusive lock of every key it has read or writes. *)
THEOREM ApplyUnderLocksHolds ==
    ASSUME ConcurrentAbort = FALSE, ServerAccess = FALSE
    PROVE  Spec => []ApplyUnderLocks
<1> DEFINE I == BaseInv /\ ControlInv /\ LocksInv
<1>1. Init => I
    BY BaseInit, ControlInit, LocksInit
<1>2. I /\ [Next]_vars => I'
    BY BaseNext, ControlKept, HoldsKept
<1>3. I => ApplyUnderLocks
    BY DEF ApplyUnderLocks, BaseInv, LockInv, WoundedIsPowerless, ControlInv, Control,
           LocksInv, Holds
<1> QED BY <1>1, <1>2, <1>3, PTL DEF Spec

-----------------------------------------------------------------------------
(* The store *)

(* An embedded client, no abort from outside, a store that does not raise. *)
Undisturbed == ConcurrentAbort = FALSE /\ ServerAccess = FALSE /\ StoreMayFail = FALSE

(* The commit has a timestamp and is not over; it is over. *)
Chosen(t) == step[t] \in {"waiting", "entering", "applying"}
Ended(t) == step[t] \in {"finalizing", "over"}
(* What the others have written, and the value of a set of versions. *)
Others(t, k) == {v \in store[k] : v.by # t}
ValueOf(vs) == IF vs = {} THEN NoTxn ELSE Newest(vs).by

(* A version of k is of a commit that is being applied or has ended, and the
   safe time covers the ended ones. *)
Legitimate(v, k) ==
    /\ v.ts = cts[v.by] /\ k \in writes[v.by]
    /\ step[v.by] = "applying" \/ Ended(v.by)
    /\ step[v.by] = "applying" => k \notin pending[v.by]
    /\ step[v.by] = "applying" \/ TsLeq(v.ts, lastCommit)

VersionInv == \A k \in Keys : \A v \in store[k] : Legitimate(v, k)

(* A commit writes what was buffered, all of it. *)
WrittenInv ==
    /\ \A t \in Txns : step[t] = "applying" => pending[t] \subseteq writes[t]
    /\ \A t \in Txns : tstate[t] = "committed" => TsLeq(cts[t], lastCommit)
    /\ \A t \in Txns : \A k \in writes[t] :
          tstate[t] = "committed" \/ (step[t] = "applying" /\ k \notin pending[t])
              => [by |-> t, ts |-> cts[t]] \in store[k]

StoreInv == VersionInv /\ WrittenInv

(* The steps of a transaction that neither read nor choose nor apply. *)
LEMMA PlainSteps ==
    ASSUME Undisturbed, BaseInv, ControlInv, NEW t \in Txns, TxnStep(t),
           ~Choose(t), ~EnterApply(t), ~AdvanceSafeTime(t),
           \A k \in Keys : ~Apply(t, k) /\ ~ReadLocked(t, k)
    PROVE  /\ UNCHANGED <<cts, lastAssigned, lastCommit, store, seen>>
           /\ step[t] # "applying" /\ step'[t] # "applying"
           /\ step'[t] \in {"waiting", "entering"} =>
                 step[t] \in {"waiting", "entering"} /\ writes' = writes
           /\ Ended(t) => step'[t] \in {"finalizing", "over"} /\ writes' = writes
           /\ writes[t] \subseteq writes'[t]
           /\ tstate'[t] = "committed" => tstate[t] = "committed"
<1> DEFINE Plain ==
           /\ UNCHANGED <<cts, lastAssigned, lastCommit, store, seen>>
           /\ step[t] # "applying" /\ step'[t] # "applying"
           /\ step'[t] \in {"waiting", "entering"} =>
                 step[t] \in {"waiting", "entering"} /\ writes' = writes
           /\ Ended(t) => step'[t] \in {"finalizing", "over"} /\ writes' = writes
           /\ writes[t] \subseteq writes'[t]
           /\ tstate'[t] = "committed" => tstate[t] = "committed"
<1> USE DEF BaseInv, TxnTypeOK, Goto, mgrVars, Ended
<1>1. ASSUME NEW k \in Keys, Get(t, k) PROVE Plain
    BY <1>1 DEF Get, Callable
<1>2. ASSUME NEW k \in Keys, Put(t, k) PROVE Plain
    BY <1>2 DEF Put, Callable
<1>3. CASE Commit(t)
    BY <1>3 DEF Commit, Callable
<1>4. CASE LockNextKey(t) \/ LocksComplete(t)
    BY <1>4 DEF LockNextKey, LocksComplete, txnVars
<1>5. CASE Sleep(t) \/ WaitTooLong(t)
    <2>1. step[t] # "applying"
        BY <1>5 DEF Sleep, WaitTooLong, Block, DeadlinePasses, ControlInv, Control, InTable
    <2> QED BY <1>5, <2>1 DEF Sleep, WaitTooLong, txnVars
<1>6. CASE CommitWaitOver(t)
    BY <1>6 DEF CommitWaitOver
<1>7. CASE CommitFails(t)
    BY <1>7 DEF CommitFails, Undisturbed
<1>8. CASE Finalize(t) \/ Abort(t)
    BY <1>8 DEF Finalize, Abort, Finish
<1>9. CASE Granted(t)
    <2>1. step[t] \in {"getting", "locking"}
        BY <1>9, GrantedEffect DEF Take, ControlInv, Control, InTable
    <2>2. UNCHANGED <<cts, lastAssigned, lastCommit, store, seen, writes, tstate>>
        BY <1>9, GrantedEffect
    <2>3. step' = [step EXCEPT ![t] = "reading"] \/ step' = step
        BY <1>9, GrantedEffect
    <2> QED BY <2>1, <2>2, <2>3
<1>10. CASE Refused(t)
    <2>1. step[t] \in {"getting", "locking"}
        BY <1>10, RefusedEffect DEF RaiseWounded, Block, ControlInv, Control, InTable
    <2>2. UNCHANGED <<cts, lastAssigned, lastCommit, store, writes>>
        BY <1>10, RefusedEffect
    <2>3. CASE step[t] = "getting"
        <3>1. /\ step' = [step EXCEPT ![t] = IF ServerAccess THEN "idle" ELSE "quitting"]
              /\ seen' = [seen EXCEPT ![t][want[t].key] =
                             IF ServerAccess /\ @ = NotRead THEN NoTxn ELSE @]
              /\ tstate' = tstate
            BY <1>10, <2>3, RefusedEffect
        <3> QED BY <2>2, <2>3, <3>1 DEF Undisturbed
    <2>4. CASE step[t] # "getting"
        <3>1. /\ step' = [step EXCEPT ![t] = "finalizing"] /\ seen' = seen
              /\ tstate' = [tstate EXCEPT ![t] = "aborted"]
            BY <1>10, <2>4, RefusedEffect
        <3> QED BY <2>1, <2>2, <3>1
    <2> QED BY <2>3, <2>4
<1>11. ~AbortRace(t)
    BY DEF AbortRace, Undisturbed
<1> QED BY <1>1, <1>2, <1>3, <1>4, <1>5, <1>6, <1>7, <1>8, <1>9, <1>10, <1>11
        DEF TxnStep, CommitStep

(* What each of the remaining steps does to the records. *)
LEMMA ReadEffect ==
    ASSUME BaseInv, NEW t \in Txns, NEW k \in Keys, ReadLocked(t, k)
    PROVE  /\ UNCHANGED <<cts, lastAssigned, lastCommit, store, writes, tstate, wounded, writer>>
           /\ step[t] = "reading" /\ step' = [step EXCEPT ![t] = "idle"] /\ pending[t] = {k}
           /\ \A u \in Txns : u # t => pending'[u] = pending[u]
           /\ \A u \in Txns, j \in Keys : u # t \/ j # k => seen'[u][j] = seen[u][j]
           /\ \E ts \in Stamps : TsLeq(lastCommit, ts) /\
                 seen'[t][k] = IF seen[t][k] = NotRead THEN ReadAt(k, ts) ELSE seen[t][k]
<1> USE DEF BaseInv, TxnTypeOK
<1>1. /\ UNCHANGED <<cts, lastAssigned, lastCommit, store, writes, tstate, wounded, writer>>
      /\ step[t] = "reading" /\ step' = [step EXCEPT ![t] = "idle"] /\ pending[t] = {k}
      /\ pending' = [pending EXCEPT ![t] = {}]
    BY DEF ReadLocked, Goto, mgrVars, lockVars
<1> DEFINE n == <<Physical, 0>>
           ts == IF TsLess(n, lastCommit) THEN lastCommit ELSE n
<1>2. n \in Stamps /\ ts \in Stamps
    BY DEF Physical, Stamps
<1>3. TsLeq(lastCommit, ts)
    BY <1>2, TsTotal DEF TsLeq
<1>4. seen' = [seen EXCEPT ![t][k] = IF @ = NotRead THEN ReadAt(k, ts) ELSE @]
    BY DEF ReadLocked
<1>5. \A u \in Txns, j \in Keys : u # t \/ j # k => seen'[u][j] = seen[u][j]
    BY <1>4
<1>6. seen'[t][k] = IF seen[t][k] = NotRead THEN ReadAt(k, ts) ELSE seen[t][k]
    BY <1>4
<1> QED BY <1>1, <1>2, <1>3, <1>5, <1>6

LEMMA ApplyEffect ==
    ASSUME BaseInv, NEW t \in Txns, NEW k \in Keys, Apply(t, k)
    PROVE  /\ UNCHANGED <<cts, lastAssigned, lastCommit, step, writes, tstate, seen, wounded,
                          writer>>
           /\ step[t] = "applying" /\ k \in pending[t]
           /\ pending' = [pending EXCEPT ![t] = @ \ {k}]
           /\ store' = [store EXCEPT ![k] = @ \cup {[by |-> t, ts |-> cts[t]]}]
BY DEF Apply, lockVars

LEMMA AdvanceEffect ==
    ASSUME BaseInv, NEW t \in Txns, AdvanceSafeTime(t)
    PROVE  /\ UNCHANGED <<cts, lastAssigned, store, writes, pending, seen, wounded, writer>>
           /\ step[t] = "applying" /\ pending[t] = {}
           /\ step' = [step EXCEPT ![t] = "finalizing"]
           /\ tstate' = [tstate EXCEPT ![t] = "committed"]
           /\ lastCommit' \in Stamps /\ lastCommit' \in {lastCommit, cts[t]}
           /\ TsLeq(lastCommit, lastCommit') /\ TsLeq(cts[t], lastCommit')
<1> USE DEF BaseInv, TxnTypeOK
<1>1. lastCommit' = IF TsLess(lastCommit, cts[t]) THEN cts[t] ELSE lastCommit
    BY DEF AdvanceSafeTime
<1>2. TsLeq(lastCommit, lastCommit') /\ TsLeq(cts[t], lastCommit')
    BY <1>1, TsTotal DEF TsLeq
<1> QED BY <1>1, <1>2 DEF AdvanceSafeTime, Goto, lockVars

LEMMA ChooseEffect ==
    ASSUME BaseInv, NEW t \in Txns, Choose(t)
    PROVE  /\ UNCHANGED <<lastCommit, store, writes, pending, seen, tstate, wounded, writer>>
           /\ step[t] = "choosing" /\ step' = [step EXCEPT ![t] = "waiting"]
           /\ cts' = [cts EXCEPT ![t] = lastAssigned'] /\ lastAssigned' \in Stamps
           /\ TsLess(lastAssigned, lastAssigned')
BY ChosenStamp DEF BaseInv, Choose, Goto, lockVars

LEMMA EnterEffect ==
    ASSUME BaseInv, NEW t \in Txns, EnterApply(t)
    PROVE  /\ UNCHANGED <<cts, lastAssigned, lastCommit, store, writes, seen, tstate, wounded,
                          writer>>
           /\ step[t] = "entering" /\ step' = [step EXCEPT ![t] = "applying"]
           /\ pending' = [pending EXCEPT ![t] = writes[t]]
BY DEF EnterApply, EnterCommit, Goto, mgrVars

LEMMA VersionsKept ==
    ASSUME Undisturbed, BaseInv, ControlInv, StoreInv, [Next]_vars
    PROVE  VersionInv'
<1> USE DEF Ended, Legitimate
<1>1. CASE UNCHANGED <<lockVars, txnVars, mgrVars>>
    BY <1>1 DEF StoreInv, VersionInv, TsLeq, TsLess, txnVars, mgrVars
<1>2. ASSUME NEW t \in Txns, TxnStep(t), NEW k \in Keys, NEW v \in store'[k]
      PROVE  Legitimate(v, k)'
    <2>1. cts \in [Txns -> Stamps] /\ store \in [Keys -> SUBSET Versions]
          /\ step \in [Txns -> Steps] /\ pending \in [Txns -> SUBSET Keys]
          /\ lastCommit \in Stamps
        BY DEF BaseInv, TxnTypeOK
    <2>2. \A w \in store[k] : w.by \in Txns /\ w.ts \in Stamps /\ Legitimate(w, k)
        BY <2>1 DEF StoreInv, VersionInv, Versions
    <2>3. \A u \in Txns : u # t =>
             /\ step'[u] = step[u] /\ pending'[u] = pending[u]
             /\ writes'[u] = writes[u] /\ cts'[u] = cts[u]
        BY <1>2, OtherRecords DEF BaseInv
    <2>4. ASSUME NEW j \in Keys, Apply(t, j)
          PROVE  Legitimate(v, k)'
        <3>1. /\ UNCHANGED <<cts, lastCommit, step, writes>>
              /\ step[t] = "applying" /\ j \in pending[t]
              /\ pending' = [pending EXCEPT ![t] = @ \ {j}]
              /\ store' = [store EXCEPT ![j] = @ \cup {[by |-> t, ts |-> cts[t]]}]
            BY <2>4, ApplyEffect
        <3>2. j \in writes[t]
            BY <3>1 DEF StoreInv, WrittenInv
        <3>3. CASE v \in store[k]
            BY <2>1, <2>2, <3>1, <3>3 DEF TsLeq, TsLess
        <3>4. CASE v \notin store[k]
            <4>1. k = j /\ v = [by |-> t, ts |-> cts[t]]
                BY <2>1, <3>1, <3>4
            <4> QED BY <2>1, <3>1, <3>2, <4>1
        <3> QED BY <3>3, <3>4
    <2>5. ASSUME \A j \in Keys : ~Apply(t, j)
          PROVE  v \in store[k]
        BY <2>5, <1>2, PlainSteps, ReadEffect, AdvanceEffect, ChooseEffect, EnterEffect
    <2>6. ASSUME NEW j \in Keys, ReadLocked(t, j), v \in store[k]
          PROVE  Legitimate(v, k)'
        <3>1. UNCHANGED <<cts, lastCommit, writes>> /\ step[t] = "reading"
            BY <2>6, ReadEffect
        <3> QED BY <2>2, <2>3, <2>6, <3>1 DEF TsLeq, TsLess
    <2>7. ASSUME AdvanceSafeTime(t), v \in store[k]
          PROVE  Legitimate(v, k)'
        <3>1. /\ UNCHANGED <<cts, writes, pending>> /\ step[t] = "applying"
              /\ step' = [step EXCEPT ![t] = "finalizing"] /\ lastCommit' \in Stamps
              /\ TsLeq(lastCommit, lastCommit') /\ TsLeq(cts[t], lastCommit')
            BY <2>7, AdvanceEffect
        <3>2. step'[v.by] = "applying" \/ TsLeq(v.ts, lastCommit')
            BY <2>1, <2>2, <2>7, <3>1, TsTransitive
        <3>3. step'[v.by] = "applying" \/ TsLeq(v.ts, lastCommit)'
            BY <3>2 DEF TsLeq, TsLess
        <3> QED BY <2>1, <2>2, <2>7, <3>1, <3>3
    <2>8. ASSUME Choose(t), v \in store[k]
          PROVE  Legitimate(v, k)'
        <3>1. UNCHANGED <<lastCommit, writes>> /\ step[t] = "choosing"
            BY <2>8, ChooseEffect
        <3> QED BY <2>2, <2>3, <2>8, <3>1 DEF TsLeq, TsLess
    <2>9. ASSUME EnterApply(t), v \in store[k]
          PROVE  Legitimate(v, k)'
        <3>1. UNCHANGED <<cts, lastCommit, writes>> /\ step[t] = "entering"
            BY <2>9, EnterEffect
        <3> QED BY <2>2, <2>3, <2>9, <3>1 DEF TsLeq, TsLess
    <2>10. ASSUME ~Choose(t), ~EnterApply(t), ~AdvanceSafeTime(t),
                  \A j \in Keys : ~Apply(t, j) /\ ~ReadLocked(t, j), v \in store[k]
          PROVE  Legitimate(v, k)'
        <3>1. /\ UNCHANGED <<cts, lastCommit>>
              /\ step[t] # "applying" /\ step'[t] # "applying"
              /\ Ended(t) => step'[t] \in {"finalizing", "over"}
              /\ writes[t] \subseteq writes'[t]
            BY <1>2, <2>10, PlainSteps
        <3> QED BY <2>2, <2>3, <2>10, <3>1 DEF TsLeq, TsLess
    <2> QED BY <2>4, <2>5, <2>6, <2>7, <2>8, <2>9, <2>10
<1> QED BY <1>1, <1>2, StepsOfTxns DEF VersionInv

LEMMA WrittenKept ==
    ASSUME Undisturbed, BaseInv, ControlInv, StoreInv, [Next]_vars
    PROVE  WrittenInv'
<1> DEFINE Complete(t) ==
           /\ step[t] = "applying" => pending[t] \subseteq writes[t]
           /\ tstate[t] = "committed" => TsLeq(cts[t], lastCommit)
           /\ \A k \in writes[t] :
                 tstate[t] = "committed" \/ (step[t] = "applying" /\ k \notin pending[t])
                     => [by |-> t, ts |-> cts[t]] \in store[k]
<1>1. CASE UNCHANGED <<lockVars, txnVars, mgrVars>>
    BY <1>1 DEF StoreInv, WrittenInv, TsLeq, TsLess, txnVars, mgrVars
<1>2. ASSUME NEW t \in Txns, TxnStep(t), NEW u \in Txns PROVE Complete(u)'
    <2>1. /\ cts \in [Txns -> Stamps] /\ store \in [Keys -> SUBSET Versions]
          /\ step \in [Txns -> Steps] /\ pending \in [Txns -> SUBSET Keys]
          /\ writes \in [Txns -> SUBSET Keys] /\ lastCommit \in Stamps
          /\ tstate \in [Txns -> {"active", "preparing", "committed", "aborted"}]
        BY DEF BaseInv, TxnTypeOK
    <2>2. \A w \in Txns : Complete(w) /\ (tstate[w] = "committed" => Ended(w))
        BY DEF StoreInv, WrittenInv, ControlInv, Control, Ended
    <2>3. u # t => /\ step'[u] = step[u] /\ pending'[u] = pending[u] /\ tstate'[u] = tstate[u]
                   /\ writes'[u] = writes[u] /\ cts'[u] = cts[u]
        BY <1>2, OtherRecords DEF BaseInv
    <2>4. ASSUME NEW j \in Keys, Apply(t, j) PROVE Complete(u)'
        <3>1. /\ UNCHANGED <<cts, lastCommit, step, writes, tstate>>
              /\ step[t] = "applying" /\ j \in pending[t]
              /\ pending' = [pending EXCEPT ![t] = @ \ {j}]
              /\ store' = [store EXCEPT ![j] = @ \cup {[by |-> t, ts |-> cts[t]]}]
            BY <2>4, ApplyEffect
        <3>2. \A k \in Keys : store[k] \subseteq store'[k]
            BY <2>1, <3>1
        <3>3. CASE u # t
            BY <2>1, <2>2, <2>3, <3>1, <3>2, <3>3 DEF TsLeq, TsLess
        <3>4. CASE u = t
            <4>1. pending'[t] = pending[t] \ {j} /\ [by |-> t, ts |-> cts[t]] \in store'[j]
                BY <2>1, <3>1
            <4> QED BY <2>1, <2>2, <3>1, <3>2, <3>4, <4>1 DEF TsLeq, TsLess, Ended
        <3> QED BY <3>3, <3>4
    <2>5. ASSUME AdvanceSafeTime(t) PROVE Complete(u)'
        <3>1. /\ UNCHANGED <<cts, writes, pending, store>>
              /\ step[t] = "applying" /\ pending[t] = {}
              /\ step' = [step EXCEPT ![t] = "finalizing"] /\ lastCommit' \in Stamps
              /\ tstate' = [tstate EXCEPT ![t] = "committed"]
              /\ TsLeq(lastCommit, lastCommit') /\ TsLeq(cts[t], lastCommit')
            BY <2>5, AdvanceEffect
        <3>2. tstate'[u] = "committed" => TsLeq(cts[u], lastCommit')
            BY <2>1, <2>2, <3>1, TsTransitive
        <3>3. (tstate[u] = "committed" => TsLeq(cts[u], lastCommit))'
            BY <3>1, <3>2 DEF TsLeq, TsLess
        <3> QED BY <2>1, <2>2, <3>1, <3>3
    <2>6. CASE Choose(t)
        <3>1. /\ UNCHANGED <<lastCommit, store, writes, pending, tstate>>
              /\ step[t] = "choosing" /\ step' = [step EXCEPT ![t] = "waiting"]
            BY <2>6, ChooseEffect
        <3> QED BY <2>1, <2>2, <2>3, <3>1 DEF TsLeq, TsLess, Ended
    <2>7. CASE EnterApply(t)
        <3>1. /\ UNCHANGED <<cts, lastCommit, store, writes, tstate>>
              /\ step[t] = "entering" /\ step' = [step EXCEPT ![t] = "applying"]
              /\ pending' = [pending EXCEPT ![t] = writes[t]]
            BY <2>7, EnterEffect
        <3> QED BY <2>1, <2>2, <2>3, <3>1 DEF TsLeq, TsLess, Ended
    <2>8. ASSUME NEW j \in Keys, ReadLocked(t, j) PROVE Complete(u)'
        <3>1. /\ UNCHANGED <<cts, lastCommit, store, writes, tstate>>
              /\ step[t] = "reading" /\ step' = [step EXCEPT ![t] = "idle"]
            BY <2>8, ReadEffect
        <3> QED BY <2>1, <2>2, <2>3, <3>1 DEF TsLeq, TsLess, Ended
    <2>9. CASE /\ ~Choose(t) /\ ~EnterApply(t) /\ ~AdvanceSafeTime(t)
               /\ \A j \in Keys : ~Apply(t, j) /\ ~ReadLocked(t, j)
        <3>1. /\ UNCHANGED <<cts, lastCommit, store>>
              /\ step[t] # "applying" /\ step'[t] # "applying"
              /\ Ended(t) => writes' = writes
              /\ tstate'[t] = "committed" => tstate[t] = "committed"
            BY <1>2, <2>9, PlainSteps
        <3> QED BY <2>1, <2>2, <2>3, <3>1 DEF TsLeq, TsLess
    <2> QED BY <2>4, <2>5, <2>6, <2>7, <2>8, <2>9
<1> QED BY <1>1, <1>2, StepsOfTxns DEF WrittenInv

-----------------------------------------------------------------------------
(* Serializability *)

(* What a transaction has read is still the newest value that others have
   written, and its timestamp is above that of every such version. *)
Current(t) ==
    t \notin wounded => \A k \in Keys :
        /\ seen[t][k] # NotRead /\ ~Ended(t) => seen[t][k] = ValueOf(Others(t, k))
        /\ Chosen(t) /\ (seen[t][k] # NotRead \/ k \in writes[t])
              => \A v \in Others(t, k) : TsLess(v.ts, cts[t])

Earlier(k, ts) == {v \in store[k] : TsLess(v.ts, ts)}

(* A committed transaction has read what was written before its timestamp, and
   no commit on its way to the store writes a key it read below that. *)
SerialAt(t) ==
    tstate[t] = "committed" => \A k \in Keys : seen[t][k] # NotRead =>
        /\ seen[t][k] = ValueOf(Earlier(k, cts[t]))
        /\ \A w \in Txns \ wounded : w # t /\ Chosen(w) /\ k \in writes[w]
              => TsLess(cts[t], cts[w])

ReadInv == \A t \in Txns : Current(t) /\ SerialAt(t)

SerialInv == BaseInv /\ ControlInv /\ LocksInv /\ StoreInv /\ ReadInv

(* While t applies its write of k nobody else has a live interest in k. *)
LEMMA ApplyExcludes ==
    ASSUME SerialInv, NEW t \in Txns, step[t] = "applying", NEW k \in writes[t],
           NEW u \in Txns, u # t, u \notin wounded
    PROVE  /\ seen[u][k] # NotRead => step[u] = "over"
           /\ Chosen(u) => k \notin writes[u]
           /\ step[u] # "reading" \/ pending[u] # {k}
<1>1. t \notin wounded
    BY DEF SerialInv, ControlInv, Control, BaseInv, LockInv, WoundedIsPowerless
<1>2. writer[k] = t /\ k \in Keys
    BY <1>1 DEF SerialInv, LocksInv, Holds, BaseInv, TxnTypeOK
<1>3. Holds(u)
    BY DEF SerialInv, LocksInv
<1> QED BY <1>2, <1>3 DEF Holds, Chosen

(* A locked read sees all that others have written. *)
LEMMA LockedReadIsCurrent ==
    ASSUME SerialInv, NEW t \in Txns, NEW k \in Keys, step[t] = "reading", pending[t] = {k},
           t \notin wounded, NEW ts \in Stamps, TsLeq(lastCommit, ts)
    PROVE  ReadAt(k, ts) = ValueOf(Others(t, k))
<1>1. ASSUME NEW v \in store[k] PROVE v.by # t /\ TsLeq(v.ts, ts)
    <2>1. v.by \in Txns /\ v.ts \in Stamps /\ lastCommit \in Stamps
        BY DEF SerialInv, BaseInv, TxnTypeOK, Versions
    <2>2. Legitimate(v, k)
        BY DEF SerialInv, StoreInv, VersionInv
    <2>3. v.by # t
        BY <2>2 DEF Legitimate, Ended
    <2>4. step[v.by] # "applying"
        BY <2>1, <2>2, <2>3, ApplyExcludes DEF Legitimate
    <2> QED BY <2>1, <2>2, <2>3, <2>4, TsTransitive DEF Legitimate
<1>2. VersionsAt(k, ts) = Others(t, k)
    BY <1>1 DEF VersionsAt, Others
<1> QED BY <1>2 DEF ReadAt, ValueOf

(* Nobody writes under a transaction that has read, by its locks. *)
LEMMA CurrentKept ==
    ASSUME Undisturbed, SerialInv, [Next]_vars, NEW t \in Txns, TxnStep(t), NEW u \in Txns
    PROVE  Current(u)'
<1> DEFINE Fresh(k) ==
           /\ seen'[u][k] # NotRead /\ step'[u] \notin {"finalizing", "over"}
                 => seen'[u][k] = ValueOf(Others(u, k))'
           /\ Chosen(u)' /\ (seen'[u][k] # NotRead \/ k \in writes'[u])
                 => \A v \in Others(u, k)' : TsLess(v.ts, cts[u])'
<1> SUFFICES ASSUME u \notin wounded', step'[u] # "over", NEW k \in Keys PROVE Fresh(k)
    BY DEF Current, Ended, Chosen
<1>1. /\ cts \in [Txns -> Stamps] /\ store \in [Keys -> SUBSET Versions]
      /\ step \in [Txns -> Steps] /\ writes \in [Txns -> SUBSET Keys] /\ lastAssigned \in Stamps
    BY DEF SerialInv, BaseInv, TxnTypeOK
<1>2. BaseInv /\ ControlInv /\ [LockNext]_lockVars /\ ControlInv'
    BY ControlKept, StepUsesTable DEF SerialInv, BaseInv, AbortRace, Undisturbed
<1>3. u \notin wounded
    <2>1. phase'[u] # "done"
        BY <1>2 DEF ControlInv, Control
    <2> QED BY <1>2, <2>1, LocksStay DEF BaseInv
<1>4. /\ seen[u][k] # NotRead /\ ~Ended(u) => seen[u][k] = ValueOf(Others(u, k))
      /\ Chosen(u) /\ (seen[u][k] # NotRead \/ k \in writes[u])
            => \A v \in Others(u, k) : TsLess(v.ts, cts[u])
    BY <1>3 DEF SerialInv, ReadInv, Current
<1>5. u # t => /\ step'[u] = step[u] /\ writes'[u] = writes[u]
               /\ seen'[u] = seen[u] /\ cts'[u] = cts[u]
    BY <1>2, OtherRecords DEF BaseInv
<1> USE DEF Ended, Chosen
<1>6. ASSUME store'[k] = store[k], step'[u] = step[u], writes'[u] = writes[u],
             seen'[u][k] = seen[u][k], cts'[u] = cts[u]
      PROVE  Fresh(k)
    BY <1>4, <1>6 DEF Others, ValueOf, Newest, TsLeq, TsLess
<1>7. CASE u # t /\ store' = store
    BY <1>5, <1>6, <1>7
<1>8. ASSUME NEW j \in Keys, Apply(t, j) PROVE Fresh(k)
    <2>1. /\ UNCHANGED <<cts, step, writes, seen>>
          /\ step[t] = "applying" /\ j \in pending[t]
          /\ store' = [store EXCEPT ![j] = @ \cup {[by |-> t, ts |-> cts[t]]}]
        BY <1>2, <1>8, ApplyEffect
    <2>2. j \in writes[t]
        BY <2>1 DEF SerialInv, StoreInv, WrittenInv
    <2>3. CASE k # j
        BY <1>1, <1>6, <2>1, <2>3
    <2>4. CASE k = j /\ u # t
        BY <1>3, <2>1, <2>2, <2>4, ApplyExcludes
    <2>5. CASE k = j /\ u = t
        <3>1. Others(u, k)' = Others(u, k)
            BY <1>1, <2>1, <2>5 DEF Others
        <3> QED BY <1>4, <2>1, <3>1 DEF ValueOf, Newest, TsLeq, TsLess
    <2> QED BY <2>3, <2>4, <2>5
<1>9. CASE AdvanceSafeTime(t) /\ u = t
    BY <1>1, <1>2, <1>9, AdvanceEffect
<1>10. CASE Choose(t) /\ u = t
    <2>1. /\ UNCHANGED <<store, writes, seen>>
          /\ step[t] = "choosing" /\ step' = [step EXCEPT ![t] = "waiting"]
          /\ cts' = [cts EXCEPT ![t] = lastAssigned'] /\ lastAssigned' \in Stamps
          /\ TsLess(lastAssigned, lastAssigned')
        BY <1>2, <1>10, ChooseEffect
    <2>2. ASSUME NEW v \in store[k] PROVE TsLess(v.ts, lastAssigned')
        <3>1. v.ts = cts[v.by] /\ v.by \in Txns
            BY <1>1 DEF SerialInv, StoreInv, VersionInv, Legitimate, Versions
        <3>2. TsLeq(v.ts, lastAssigned) /\ v.ts \in Stamps
            BY <1>1, <3>1 DEF BaseInv, TimeInv, SerialInv
        <3> QED BY <1>1, <2>1, <3>2, TsTransitive
    <2>3. cts'[u] = lastAssigned' /\ step'[u] = "waiting" /\ step[u] = "choosing"
        BY <1>1, <1>10, <2>1
    <2>4. \A v \in Others(u, k)' : TsLess(v.ts, cts'[u])
        BY <2>1, <2>2, <2>3 DEF Others
    <2>5. seen'[u][k] # NotRead => seen'[u][k] = ValueOf(Others(u, k))'
        BY <1>4, <2>1, <2>3 DEF Others, ValueOf, Newest, TsLeq, TsLess
    <2> QED BY <2>4, <2>5 DEF TsLess
<1>11. CASE EnterApply(t) /\ u = t
    <2>1. UNCHANGED <<cts, store, writes, seen>> /\ Chosen(u) /\ step'[u] = "applying"
        BY <1>1, <1>2, <1>11, EnterEffect
    <2> QED BY <1>4, <2>1 DEF Others, ValueOf, Newest, TsLeq, TsLess
<1>12. ASSUME NEW j \in Keys, ReadLocked(t, j), u = t PROVE Fresh(k)
    <2>1. /\ UNCHANGED <<cts, store, writes>> /\ pending[t] = {j}
          /\ step[t] = "reading" /\ step'[u] = "idle"
        BY <1>1, <1>2, <1>12, ReadEffect
    <2>2. CASE k # j
        <3>1. seen'[u][k] = seen[u][k]
            BY <1>2, <1>12, <2>2, ReadEffect
        <3> QED BY <1>4, <1>12, <2>1, <3>1 DEF Others, ValueOf, Newest, TsLeq, TsLess
    <2>3. CASE k = j
        <3>1. PICK ts \in Stamps : TsLeq(lastCommit, ts) /\
                  seen'[t][k] = IF seen[t][k] = NotRead THEN ReadAt(k, ts) ELSE seen[t][k]
            BY <1>2, <1>12, <2>3, ReadEffect
        <3>2. ReadAt(k, ts) = ValueOf(Others(t, k))
            BY <1>3, <1>12, <2>1, <2>3, <3>1, LockedReadIsCurrent
        <3>3. seen'[u][k] = ValueOf(Others(u, k))
            BY <1>4, <1>12, <2>1, <3>1, <3>2
        <3>4. ValueOf(Others(u, k))' = ValueOf(Others(u, k))
            BY <2>1 DEF Others, ValueOf, Newest, TsLeq, TsLess
        <3> QED BY <2>1, <3>3, <3>4
    <2> QED BY <2>2, <2>3
<1>13. CASE /\ u = t /\ ~Choose(t) /\ ~EnterApply(t) /\ ~AdvanceSafeTime(t)
            /\ \A j \in Keys : ~Apply(t, j) /\ ~ReadLocked(t, j)
    <2>1. /\ UNCHANGED <<cts, store, seen>> /\ step'[t] # "applying"
          /\ step'[t] \in {"waiting", "entering"} =>
                step[t] \in {"waiting", "entering"} /\ writes' = writes
          /\ Ended(t) => step'[t] \in {"finalizing", "over"}
        BY <1>2, <1>13, PlainSteps
    <2>2. Others(u, k)' = Others(u, k) /\ ValueOf(Others(u, k))' = ValueOf(Others(u, k))
        BY <2>1 DEF Others, ValueOf, Newest, TsLeq, TsLess
    <2> QED BY <1>4, <1>13, <2>1, <2>2 DEF TsLess
<1>14. (\A j \in Keys : ~Apply(t, j)) => store' = store
    BY <1>2, PlainSteps, ReadEffect, AdvanceEffect, ChooseEffect, EnterEffect
<1> QED BY <1>7, <1>8, <1>9, <1>10, <1>11, <1>12, <1>13, <1>14

(* What is committed keeps its place in the order of timestamps. *)
LEMMA SerialKept ==
    ASSUME Undisturbed, SerialInv, [Next]_vars, NEW t \in Txns, TxnStep(t), NEW u \in Txns
    PROVE  SerialAt(u)'
<1> DEFINE Ordered(k) ==
           /\ seen'[u][k] = ValueOf(Earlier(k, cts[u]))'
           /\ \A w \in Txns \ wounded' : w # u /\ Chosen(w)' /\ k \in writes'[w]
                 => TsLess(cts[u], cts[w])'
<1> SUFFICES ASSUME tstate'[u] = "committed", NEW k \in Keys, seen'[u][k] # NotRead
             PROVE  Ordered(k)
    BY DEF SerialAt
<1>1. /\ cts \in [Txns -> Stamps] /\ store \in [Keys -> SUBSET Versions]
      /\ step \in [Txns -> Steps] /\ writes \in [Txns -> SUBSET Keys] /\ lastAssigned \in Stamps
      /\ tstate \in [Txns -> {"active", "preparing", "committed", "aborted"}]
    BY DEF SerialInv, BaseInv, TxnTypeOK
<1>2. BaseInv /\ ControlInv /\ [LockNext]_lockVars /\ ControlInv'
    BY ControlKept, StepUsesTable DEF SerialInv, BaseInv, AbortRace, Undisturbed
<1> USE DEF Ended, Chosen
<1>3. \A w \in Txns : step'[w] # "over" /\ w \notin wounded' => w \notin wounded
    <2>1. TAKE w \in Txns
    <2>2. step'[w] # "over" => phase'[w] # "done"
        BY <1>2 DEF ControlInv, Control
    <2> QED BY <1>2, <2>2, LocksStay DEF BaseInv
<1>4. \A w \in Txns : w # t => /\ step'[w] = step[w] /\ writes'[w] = writes[w]
                               /\ tstate'[w] = tstate[w]
                               /\ seen'[w] = seen[w] /\ cts'[w] = cts[w]
    BY <1>2, OtherRecords DEF BaseInv
<1>5. tstate[u] = "committed" => Ended(u)
    BY <1>2 DEF ControlInv, Control
<1>6. tstate[u] = "committed" /\ seen[u][k] # NotRead =>
          /\ seen[u][k] = ValueOf(Earlier(k, cts[u]))
          /\ \A w \in Txns \ wounded : w # u /\ Chosen(w) /\ k \in writes[w]
                => TsLess(cts[u], cts[w])
    BY DEF SerialInv, ReadInv, SerialAt
<1>7. ASSUME tstate[u] = "committed", seen'[u][k] = seen[u][k], cts' = cts,
             Earlier(k, cts[u])' = Earlier(k, cts[u]),
             \A w \in Txns : Chosen(w)' /\ k \in writes'[w] => Chosen(w) /\ k \in writes[w]
      PROVE  Ordered(k)
    <2>1. ValueOf(Earlier(k, cts[u]))' = ValueOf(Earlier(k, cts[u]))
        BY <1>7 DEF ValueOf, Newest, TsLeq, TsLess
    <2> QED BY <1>3, <1>6, <1>7, <2>1 DEF TsLess
<1>8. ASSUME NEW j \in Keys, Apply(t, j) PROVE Ordered(k)
    <2>1. /\ UNCHANGED <<cts, step, writes, seen, tstate>>
          /\ step[t] = "applying" /\ j \in pending[t]
          /\ store' = [store EXCEPT ![j] = @ \cup {[by |-> t, ts |-> cts[t]]}]
        BY <1>2, <1>8, ApplyEffect
    <2>2. CASE k # j
        <3>1. Earlier(k, cts[u])' = Earlier(k, cts[u])
            BY <1>1, <2>1, <2>2 DEF Earlier, TsLess
        <3> QED BY <1>7, <2>1, <3>1
    <2>3. CASE k = j
        <3>1. t \notin wounded /\ t # u /\ k \in writes[t]
            BY <1>5, <2>1, <2>3 DEF SerialInv, ControlInv, Control, BaseInv, LockInv,
                                    WoundedIsPowerless, StoreInv, WrittenInv
        <3>2. TsLess(cts[u], cts[t])
            BY <1>6, <2>1, <3>1
        <3>3. ~TsLess(cts[t], cts[u])
            BY <1>1, <3>2, TsTotal DEF TsLeq
        <3>4. Earlier(k, cts[u])' = Earlier(k, cts[u])
            <4>1. Earlier(k, cts[u])' = {v \in store'[k] : TsLess(v.ts, cts[u])}
                BY <2>1 DEF Earlier, TsLess
            <4>2. store'[k] = store[k] \cup {[by |-> t, ts |-> cts[t]]}
                BY <1>1, <2>1, <2>3
            <4> QED BY <3>3, <4>1, <4>2 DEF Earlier
        <3> QED BY <1>7, <2>1, <3>4
    <2> QED BY <2>2, <2>3
<1>9. CASE AdvanceSafeTime(t)
    <2>1. /\ UNCHANGED <<cts, store, writes, seen, wounded, writer>>
          /\ step[t] = "applying" /\ step' = [step EXCEPT ![t] = "finalizing"]
          /\ tstate' = [tstate EXCEPT ![t] = "committed"]
        BY <1>2, <1>9, AdvanceEffect
    <2>2. Earlier(k, cts[u])' = Earlier(k, cts[u])
        BY <2>1 DEF Earlier, TsLess
    <2>3. \A w \in Txns : Chosen(w)' => Chosen(w) /\ w # t
        BY <1>1, <2>1
    <2>4. CASE u # t
        BY <1>1, <1>7, <2>1, <2>2, <2>3, <2>4
    <2>5. CASE u = t
        <3>1. t \notin wounded
            BY <2>1 DEF SerialInv, ControlInv, Control, BaseInv, LockInv, WoundedIsPowerless
        <3>2. /\ seen[u][k] = ValueOf(Others(u, k))
              /\ \A v \in Others(u, k) : TsLess(v.ts, cts[u])
            BY <2>1, <2>5, <3>1 DEF SerialInv, ReadInv, Current
        <3>3. \A v \in store[k] : v.by = u => ~TsLess(v.ts, cts[u])
            BY <1>1, TsTotal DEF SerialInv, StoreInv, VersionInv, Legitimate, TsLeq
        <3>4. Earlier(k, cts[u]) = Others(u, k)
            BY <3>2, <3>3 DEF Earlier, Others
        <3>5. seen'[u][k] = ValueOf(Earlier(k, cts[u]))'
            BY <2>1, <2>2, <3>2, <3>4 DEF ValueOf, Newest, TsLeq, TsLess
        <3>6. writer[k] = u
            BY <2>1, <2>5, <3>1 DEF SerialInv, LocksInv, Holds
        <3>7. ASSUME NEW w \in Txns \ wounded, w # u, Chosen(w), k \in writes[w] PROVE FALSE
            BY <3>6, <3>7 DEF SerialInv, LocksInv, Holds
        <3> QED BY <2>1, <2>3, <3>5, <3>7
    <2> QED BY <2>4, <2>5
<1>10. CASE Choose(t)
    <2>1. /\ UNCHANGED <<store, writes, seen, tstate, wounded>>
          /\ step[t] = "choosing" /\ step' = [step EXCEPT ![t] = "waiting"]
          /\ cts' = [cts EXCEPT ![t] = lastAssigned'] /\ lastAssigned' \in Stamps
          /\ TsLess(lastAssigned, lastAssigned')
        BY <1>2, <1>10, ChooseEffect
    <2>2. u # t /\ cts'[u] = cts[u] /\ tstate[u] = "committed" /\ seen[u][k] # NotRead
        BY <1>1, <1>5, <2>1
    <2>3. TsLess(cts[u], lastAssigned')
        BY <1>1, <2>1, TsTransitive DEF SerialInv, BaseInv, TimeInv
    <2>4. seen'[u][k] = ValueOf(Earlier(k, cts[u]))'
        BY <1>6, <2>1, <2>2 DEF Earlier, ValueOf, Newest, TsLeq, TsLess
    <2>5. ASSUME NEW w \in Txns \ wounded', w # u, Chosen(w)', k \in writes'[w]
          PROVE  TsLess(cts'[u], cts'[w])
        <3>1. CASE w = t
            BY <1>1, <2>1, <2>2, <2>3, <3>1
        <3>2. CASE w # t
            BY <1>4, <1>6, <2>1, <2>2, <2>5, <3>2
        <3> QED BY <3>1, <3>2
    <2> QED BY <2>4, <2>5 DEF TsLess
<1>11. CASE EnterApply(t)
    <2>1. /\ UNCHANGED <<cts, store, writes, seen, tstate>>
          /\ step[t] = "entering" /\ step' = [step EXCEPT ![t] = "applying"]
        BY <1>2, <1>11, EnterEffect
    <2> QED BY <1>1, <1>7, <2>1 DEF Earlier, TsLess
<1>12. ASSUME NEW j \in Keys, ReadLocked(t, j) PROVE Ordered(k)
    <2>1. /\ UNCHANGED <<cts, store, writes, tstate>>
          /\ step[t] = "reading" /\ step' = [step EXCEPT ![t] = "idle"]
        BY <1>2, <1>12, ReadEffect
    <2>2. u # t
        BY <1>5, <2>1
    <2> QED BY <1>1, <1>4, <1>7, <2>1, <2>2 DEF Earlier, TsLess
<1>13. CASE /\ ~Choose(t) /\ ~EnterApply(t) /\ ~AdvanceSafeTime(t)
            /\ \A j \in Keys : ~Apply(t, j) /\ ~ReadLocked(t, j)
    <2>1. /\ UNCHANGED <<cts, store, seen>> /\ step'[t] # "applying"
          /\ step'[t] \in {"waiting", "entering"} =>
                step[t] \in {"waiting", "entering"} /\ writes' = writes
          /\ tstate'[t] = "committed" => tstate[t] = "committed"
        BY <1>2, <1>13, PlainSteps
    <2>2. tstate[u] = "committed"
        BY <1>4, <2>1
    <2>3. \A w \in Txns : Chosen(w)' /\ k \in writes'[w] => Chosen(w) /\ k \in writes[w]
        BY <1>4, <2>1
    <2> QED BY <1>7, <2>1, <2>2, <2>3 DEF Earlier, TsLess
<1> QED BY <1>8, <1>9, <1>10, <1>11, <1>12, <1>13

LEMMA ReadsKept ==
    ASSUME Undisturbed, SerialInv, [Next]_vars
    PROVE  ReadInv'
<1>1. CASE UNCHANGED <<lockVars, txnVars, mgrVars>>
    <2>1. UNCHANGED <<wounded, step, tstate, writes, seen, cts, store>>
        BY <1>1 DEF lockVars, txnVars, mgrVars
    <2>2. ASSUME NEW t \in Txns PROVE Current(t)'
        <3>1. Current(t)
            BY DEF SerialInv, ReadInv
        <3>2. ASSUME NEW k \in Keys
              PROVE  /\ Others(t, k)' = Others(t, k)
                     /\ ValueOf(Others(t, k))' = ValueOf(Others(t, k))
            BY <2>1 DEF Others, ValueOf, Newest, TsLeq, TsLess
        <3> QED BY <2>1, <3>1, <3>2 DEF Current, Ended, Chosen, TsLess
    <2>3. ASSUME NEW t \in Txns PROVE SerialAt(t)'
        <3>1. SerialAt(t)
            BY DEF SerialInv, ReadInv
        <3>2. ASSUME NEW k \in Keys
              PROVE  ValueOf(Earlier(k, cts[t]))' = ValueOf(Earlier(k, cts[t]))
            BY <2>1 DEF Earlier, ValueOf, Newest, TsLeq, TsLess
        <3> QED BY <2>1, <3>1, <3>2 DEF SerialAt, Chosen, TsLess
    <2> QED BY <2>2, <2>3 DEF ReadInv
<1>2. CASE \E t \in Txns : TxnStep(t)
    BY <1>2, CurrentKept, SerialKept DEF ReadInv
<1> QED BY <1>1, <1>2, StepsOfTxns

LEMMA SerialInit == Init => SerialInv
<1> SUFFICES ASSUME Init PROVE SerialInv
    OBVIOUS
<1>1. BaseInv /\ ControlInv /\ LocksInv
    BY BaseInit, ControlInit, LocksInit
<1>2. StoreInv
    BY DEF Init, StoreInv, VersionInv, WrittenInv
<1>3. ReadInv
    BY DEF Init, ReadInv, Current, SerialAt, Chosen
<1> QED BY <1>1, <1>2, <1>3 DEF SerialInv

LEMMA SerialNext ==
    ASSUME Undisturbed, SerialInv, [Next]_vars
    PROVE  SerialInv'
<1>1. ConcurrentAbort = FALSE /\ ServerAccess = FALSE
    BY DEF Undisturbed
<1>2. BaseInv' /\ ControlInv' /\ LocksInv'
    BY <1>1, BaseNext, ControlKept, HoldsKept DEF SerialInv
<1>3. StoreInv'
    BY VersionsKept, WrittenKept DEF SerialInv, StoreInv
<1> QED BY <1>2, <1>3, ReadsKept DEF SerialInv

(* The inductive invariant behind serializability. *)
THEOREM SerialInvariant ==
    ASSUME Undisturbed
    PROVE  Spec => []SerialInv
<1>1. Init => SerialInv
    BY SerialInit
<1>2. SerialInv /\ [Next]_vars => SerialInv'
    BY SerialNext
<1> QED BY <1>1, <1>2, PTL DEF Spec

(* The order of commit timestamps is a serial order: what a committed
   transaction read with its locks is what it would have read at its commit
   timestamp (Transaction.get, commit), whatever was wounded meanwhile. *)
THEOREM SerializableHolds ==
    ASSUME Undisturbed
    PROVE  Spec => []Serializable
<1>1. SerialInv => Serializable
    BY DEF SerialInv, ReadInv, SerialAt, Serializable, Committed, Earlier, ValueOf
<1> QED BY <1>1, SerialInvariant, PTL

(* Only Apply changes the store, by one version. *)
LEMMA StoreStep ==
    ASSUME Undisturbed, BaseInv, ControlInv, [Next]_vars
    PROVE  \/ store' = store
           \/ \E t \in Txns, k \in Keys : Apply(t, k)
BY StepsOfTxns, PlainSteps, ReadEffect, AdvanceEffect, ChooseEffect, EnterEffect DEF mgrVars

(* A new version of a key is above all others: the writer holds the lock, so
   they were there when its timestamp was chosen. *)
LEMMA NewVersionIsNewest ==
    ASSUME Undisturbed, SerialInv, [Next]_vars, NEW k \in Keys, NEW v \in store'[k] \ store[k],
           NEW u \in store[k]
    PROVE  TsLess(u.ts, v.ts)
<1>1. store \in [Keys -> SUBSET Versions] /\ BaseInv /\ ControlInv
    BY DEF SerialInv, BaseInv, TxnTypeOK
<1>2. PICK t \in Txns, j \in Keys : Apply(t, j)
    BY <1>1, StoreStep
<1>3. /\ step[t] = "applying" /\ j \in pending[t]
      /\ store' = [store EXCEPT ![j] = @ \cup {[by |-> t, ts |-> cts[t]]}]
    BY <1>1, <1>2, ApplyEffect
<1>4. k = j /\ v.ts = cts[t]
    BY <1>1, <1>3
<1>5. u \in Others(t, k)
    BY <1>3, <1>4 DEF SerialInv, StoreInv, VersionInv, Legitimate, Others
<1>6. t \notin wounded /\ k \in writes[t]
    BY <1>3, <1>4 DEF SerialInv, ControlInv, Control, BaseInv, LockInv,
                      WoundedIsPowerless, StoreInv, WrittenInv
<1>7. Current(t)
    BY DEF SerialInv, ReadInv
<1> QED BY <1>3, <1>4, <1>5, <1>6, <1>7 DEF Current, Chosen

(* Versions of a key reach the store in timestamp order, although the commits
   choose, wait and apply concurrently (commit). *)
THEOREM VersionsInOrderHolds ==
    ASSUME Undisturbed
    PROVE  Spec => VersionsInOrder
<1>1. SerialInv /\ [Next]_vars =>
        [\A k \in Keys : \A v \in store'[k] \ store[k] :
            \A u \in store[k] : TsLess(u.ts, v.ts)]_vars
    BY NewVersionIsNewest
<1> QED BY <1>1, SerialInvariant, PTL DEF Spec, VersionsInOrder
-----------------------------------------------------------------------------
(* 3. Snapshots and lost updates *)

(* The versions of a key: finitely many, one for each timestamp. *)
Orderly(k) == IsFiniteSet(store[k]) /\ \A u, v \in store[k] : u.ts = v.ts => u = v
OrderlyStore == \A k \in Keys : Orderly(k)

LEMMA OrderlyStoreKept ==
    ASSUME Undisturbed, SerialInv, OrderlyStore, [Next]_vars
    PROVE  OrderlyStore'
<1>1. BaseInv /\ ControlInv /\ store \in [Keys -> SUBSET Versions] /\ cts \in [Txns -> Stamps]
    BY DEF SerialInv, BaseInv, TxnTypeOK
<1>2. CASE store' = store
    BY <1>2 DEF OrderlyStore, Orderly
<1>3. ASSUME NEW t \in Txns, NEW j \in Keys, Apply(t, j), NEW k \in Keys PROVE Orderly(k)'
    <2> DEFINE new == [by |-> t, ts |-> cts[t]]
    <2>1. store' = [store EXCEPT ![j] = @ \cup {new}]
        BY <1>1, <1>3, ApplyEffect
    <2>2. Orderly(k)
        BY DEF OrderlyStore
    <2>3. CASE k # j
        BY <1>1, <2>1, <2>2, <2>3 DEF Orderly
    <2>4. CASE k = j
        <3>1. store'[k] = store[k] \cup {new}
            BY <1>1, <2>1, <2>4
        <3>2. IsFiniteSet(store'[k])
            <4>1. IsFiniteSet(store[k])
                BY <2>2 DEF Orderly
            <4>2. IsFiniteSet(store[k] \cup {new})
                BY <4>1, FS_AddElement, Zenon
            <4> QED BY <3>1, <4>2
        <3>3. ASSUME NEW u \in store[k], new \notin store[k] PROVE u.ts # new.ts
            <4>1. TsLess(u.ts, new.ts)
                BY <3>1, <3>3, NewVersionIsNewest
            <4>2. u.ts \in Stamps /\ new.ts \in Stamps
                BY <1>1 DEF Versions
            <4> QED BY <4>1, <4>2, TsTotal DEF TsLeq
        <3> HIDE DEF new
        <3> QED BY <2>2, <3>1, <3>2, <3>3 DEF Orderly
    <2> QED BY <2>3, <2>4
<1> QED BY <1>1, <1>2, <1>3, StoreStep DEF OrderlyStore

(* Newest is well defined: a finite set of versions has a maximum, the version
   with the fewest above it. *)
LEMMA NewestIsMaximal ==
    ASSUME NEW vs \in SUBSET Versions, IsFiniteSet(vs), vs # {}
    PROVE  Newest(vs) \in vs /\ \A u \in vs : TsLeq(u.ts, Newest(vs).ts)
<1> DEFINE Above(v) == {u \in vs : TsLess(v.ts, u.ts)}
           Counts == {Cardinality(Above(v)) : v \in vs}
<1>1. \A v \in vs : IsFiniteSet(Above(v)) /\ Cardinality(Above(v)) \in Nat
    BY FS_Subset, FS_CardinalityType
<1>2. \E n \in Counts : \A m \in Counts : n =< m
    <2>1. Counts \in SUBSET Nat /\ Counts # {}
        BY <1>1
    <2> HIDE DEF Counts
    <2>2. PICK n \in Counts : \A m \in Counts : ~(<<m, n>> \in OpToRel(<, Nat))
        BY <2>1, WFMin, NatLessThanWellFounded
    <2>3. ASSUME NEW m \in Counts PROVE n =< m
        <3>1. m \in Nat /\ n \in Nat
            BY <2>1
        <3>2. ~(m < n)
            BY <2>2, <3>1 DEF OpToRel
        <3> QED BY <3>1, <3>2
    <2> QED BY <2>3
<1>3. PICK v \in vs : \A u \in vs : Cardinality(Above(v)) =< Cardinality(Above(u))
    BY <1>2
<1>4. ASSUME NEW u \in vs PROVE TsLeq(u.ts, v.ts)
    <2> SUFFICES ASSUME TsLess(v.ts, u.ts) PROVE FALSE
        BY TsTotal DEF Versions, TsLeq
    <2>1. v.ts \in Stamps /\ u.ts \in Stamps /\ \A w \in vs : w.ts \in Stamps
        BY DEF Versions
    <2>2. Above(u) \subseteq Above(v)
        BY <2>1, TsTransitive DEF TsLeq
    <2>3. u \in Above(v) /\ u \notin Above(u)
        BY <2>1, TsTotal DEF TsLeq
    <2>4. Cardinality(Above(u)) <= Cardinality(Above(v)) /\ Cardinality(Above(u)) # Cardinality(Above(v))
        BY <1>1, <2>2, <2>3, FS_Subset
    <2> HIDE DEF Above
    <2> QED BY <1>1, <1>3, <2>4
<1>5. \E w \in vs : \A u \in vs : TsLeq(u.ts, w.ts)
    BY <1>4
<1> QED BY <1>5 DEF Newest

OrderedInv == SerialInv /\ OrderlyStore

(* A version written by a transaction that a reader at ts could see: what the
   reader gets is that version or a newer one. *)
LEMMA ReadAtLeast ==
    ASSUME OrderedInv, NEW k \in Keys, NEW vs \in SUBSET store[k], NEW v \in vs
    PROVE  /\ ValueOf(vs) \in Txns
           /\ [by |-> ValueOf(vs), ts |-> cts[ValueOf(vs)]] \in vs
           /\ TsLeq(v.ts, cts[ValueOf(vs)])
<1>1. vs \in SUBSET Versions /\ IsFiniteSet(vs)
    BY FS_Subset DEF OrderedInv, OrderlyStore, Orderly, SerialInv, BaseInv, TxnTypeOK
<1>2. Newest(vs) \in vs /\ TsLeq(v.ts, Newest(vs).ts)
    BY <1>1, NewestIsMaximal
<1>3. Newest(vs) \in Versions /\ Newest(vs).ts = cts[Newest(vs).by]
    BY <1>1, <1>2 DEF OrderedInv, SerialInv, StoreInv, VersionInv, Legitimate
<1>4. ValueOf(vs) = Newest(vs).by
    BY DEF ValueOf
<1>5. Newest(vs) = [by |-> Newest(vs).by, ts |-> Newest(vs).ts]
    BY <1>3 DEF Versions
<1> QED BY <1>2, <1>3, <1>4, <1>5 DEF Versions

(* Of two committed writers of a key, the later has read the version of the
   earlier or a newer one, which the earlier cannot have read. *)
LEMMA NoLostUpdateInv == OrderedInv => NoLostUpdate
<1> SUFFICES ASSUME OrderedInv, NEW t \in Committed, NEW u \in Committed, NEW k \in Keys,
                    t # u, k \in writes[t], k \in writes[u], seen[t][k] # NotRead,
                    seen[t][k] = seen[u][k]
             PROVE  FALSE
    BY DEF NoLostUpdate
<1>1. t \in Txns /\ u \in Txns /\ cts \in [Txns -> Stamps]
    BY DEF Committed, OrderedInv, SerialInv, BaseInv, TxnTypeOK
<1>2. \A x \in {t, u} : [by |-> x, ts |-> cts[x]] \in store[k]
    BY DEF Committed, OrderedInv, SerialInv, StoreInv, WrittenInv
<1>3. \A x \in {t, u} : seen[x][k] = ValueOf(Earlier(k, cts[x]))
    BY DEF Committed, OrderedInv, SerialInv, ReadInv, SerialAt
<1>4. ASSUME NEW x \in {t, u}, NEW y \in {t, u}, TsLess(cts[x], cts[y]) PROVE FALSE
    <2>1. [by |-> x, ts |-> cts[x]] \in Earlier(k, cts[y])
        BY <1>2, <1>4 DEF Earlier
    <2>2. Earlier(k, cts[y]) \in SUBSET store[k] /\ Earlier(k, cts[x]) \in SUBSET store[k]
        BY DEF Earlier
    <2> DEFINE w == seen[x][k]
    <2>3. w \in Txns /\ TsLeq(cts[x], cts[w])
        BY <1>3, <2>1, <2>2, ReadAtLeast
    <2>4. Earlier(k, cts[x]) # {}
        BY <1>3, <2>3, TxnsAssumption DEF ValueOf, NoTxn
    <2>5. [by |-> w, ts |-> cts[w]] \in Earlier(k, cts[x])
        BY <1>3, <2>2, <2>4, ReadAtLeast
    <2>6. TsLess(cts[w], cts[x])
        BY <2>5 DEF Earlier
    <2> QED BY <1>1, <2>3, <2>6, TsTotal
<1>5. cts[t] # cts[u]
    <2>1. Orderly(k)
        BY <1>1 DEF OrderedInv, OrderlyStore, Committed, SerialInv, BaseInv, TxnTypeOK
    <2> QED BY <1>2, <2>1 DEF Orderly
<1> QED BY <1>1, <1>4, <1>5, TsTotal

-----------------------------------------------------------------------------
(* Snapshots *)

(* What a step of a transaction leaves as it is, or moves only upwards. *)
LEMMA StepMonotone ==
    ASSUME Undisturbed, BaseInv, ControlInv, NEW t \in Txns, TxnStep(t)
    PROVE  /\ snap' = snap
           /\ \A u \in Txns : Ended(u) => Ended(u)' /\ writes'[u] = writes[u]
           /\ \A u \in Txns : Ended(u) \/ Chosen(u) => cts'[u] = cts[u]
           /\ \A u \in Txns : Chosen(u)' /\ ~Chosen(u) =>
                 cts'[u] = lastAssigned' /\ TsLess(lastAssigned, lastAssigned')
           /\ \A k \in Keys : store[k] \subseteq store'[k]
           /\ TsLeq(lastAssigned, lastAssigned')
           /\ lastCommit' = lastCommit \/ lastCommit' = cts[t]
<1> USE DEF Ended, Chosen
<1>1. /\ cts \in [Txns -> Stamps] /\ store \in [Keys -> SUBSET Versions]
      /\ step \in [Txns -> Steps] /\ lastAssigned \in Stamps
    BY DEF BaseInv, TxnTypeOK
<1>2. \A u \in Txns : u # t => /\ step'[u] = step[u] /\ writes'[u] = writes[u]
                               /\ cts'[u] = cts[u]
    BY OtherRecords DEF BaseInv
<1>3. snap' = snap
    BY DEF TxnStep, CommitStep, Get, ReadLocked, Put, Commit, LockNextKey, LocksComplete, Choose,
           CommitWaitOver, CommitFails, EnterApply, Apply, AdvanceSafeTime, Finalize, Finish,
           Granted, Refused, Sleep, WaitTooLong, Abort, AbortRace
<1>4. CASE Choose(t)
    <2>1. /\ UNCHANGED <<lastCommit, store, writes>>
          /\ step[t] = "choosing" /\ step' = [step EXCEPT ![t] = "waiting"]
          /\ cts' = [cts EXCEPT ![t] = lastAssigned']
          /\ TsLess(lastAssigned, lastAssigned')
        BY <1>4, ChooseEffect
    <2>2. cts'[t] = lastAssigned' /\ step'[t] = "waiting"
        BY <1>1, <2>1
    <2> QED BY <1>2, <1>3, <2>1, <2>2 DEF TsLeq
<1>5. ASSUME NEW j \in Keys, Apply(t, j)
      PROVE  /\ UNCHANGED <<cts, lastAssigned, lastCommit, step, writes>>
             /\ \A k \in Keys : store[k] \subseteq store'[k]
    BY <1>1, <1>5, ApplyEffect
<1>6. ASSUME NEW j \in Keys, ReadLocked(t, j)
      PROVE  /\ UNCHANGED <<cts, lastAssigned, lastCommit, store, writes>>
             /\ step[t] = "reading" /\ step'[t] = "idle"
    BY <1>1, <1>6, ReadEffect
<1>7. CASE AdvanceSafeTime(t)
    <2>1. /\ UNCHANGED <<cts, store, writes, lastAssigned>> /\ lastCommit' \in {lastCommit, cts[t]}
          /\ step[t] = "applying" /\ step'[t] = "finalizing"
        BY <1>1, <1>7, AdvanceEffect
    <2> QED BY <1>2, <1>3, <2>1 DEF TsLeq
<1>8. CASE EnterApply(t)
    <2>1. /\ UNCHANGED <<cts, store, writes, lastAssigned, lastCommit>>
          /\ step[t] = "entering" /\ step'[t] = "applying"
        BY <1>1, <1>8, EnterEffect
    <2> QED BY <1>2, <1>3, <2>1 DEF TsLeq
<1>9. CASE /\ ~Choose(t) /\ ~EnterApply(t) /\ ~AdvanceSafeTime(t)
           /\ \A j \in Keys : ~Apply(t, j) /\ ~ReadLocked(t, j)
    <2>1. /\ UNCHANGED <<cts, lastAssigned, lastCommit, store>>
          /\ step'[t] # "applying"
          /\ step'[t] \in {"waiting", "entering"} => step[t] \in {"waiting", "entering"}
          /\ Ended(t) => step'[t] \in {"finalizing", "over"} /\ writes' = writes
        BY <1>9, PlainSteps
    <2> QED BY <1>2, <1>3, <2>1 DEF TsLeq
<1> QED BY <1>2, <1>3, <1>4, <1>5, <1>6, <1>7, <1>8, <1>9 DEF TsLeq

Sessions == [kind : {"none", "last", "now", "at"}, ts : Stamps, before : SUBSET Txns,
             inflight : SUBSET Txns, saw : [Keys -> Txns \cup {NoTxn, NotRead}]]

SnapTypeOK == snap \in [Snapshots -> Sessions]

(* What session r got for key k. *)
Answer(r, k) ==
    snap[r].saw[k] # NotRead =>
        /\ snap[r].saw[k] # NoTxn => \E v \in store[k] : v.by = snap[r].saw[k]
        /\ \A t \in snap[r].before : k \in writes[t] =>
              snap[r].saw[k] # NoTxn /\ TsLeq(cts[t], cts[snap[r].saw[k]])
        /\ ReadAt(k, snap[r].ts) \in {snap[r].saw[k]} \cup snap[r].inflight

(* The commits that returned before a session at LastTS() are in the store at
   its timestamp; those that had no timestamp yet stay above it. *)
Session(r) ==
    snap[r].kind = "last" =>
        /\ TsLeq(snap[r].ts, lastAssigned)
        /\ \A t \in snap[r].before :
              /\ Ended(t) /\ TsLeq(cts[t], snap[r].ts)
              /\ \A k \in writes[t] : [by |-> t, ts |-> cts[t]] \in store[k]
        /\ \A t \in Txns \ snap[r].inflight : Chosen(t) => TsLess(snap[r].ts, cts[t])
        /\ \A k \in Keys : Answer(r, k)

SnapInv ==
    /\ OrderedInv
    /\ TsLeq(lastCommit, lastAssigned)
    /\ SnapTypeOK
    /\ \A r \in Snapshots : Session(r)

(* A session that exists while a transaction takes a step. *)
LEMMA SessionKept ==
    ASSUME Undisturbed, SnapInv, [Next]_vars, NEW t \in Txns, TxnStep(t), NEW r \in Snapshots
    PROVE  Session(r)'
<1> SUFFICES ASSUME snap'[r].kind = "last" PROVE Session(r)'
    BY DEF Session
<1>1. /\ BaseInv /\ ControlInv /\ SerialInv /\ OrderedInv
      /\ cts \in [Txns -> Stamps] /\ store \in [Keys -> SUBSET Versions]
      /\ writes \in [Txns -> SUBSET Keys]
      /\ lastAssigned \in Stamps /\ lastAssigned' \in Stamps /\ cts' \in [Txns -> Stamps]
    BY BaseNext DEF SnapInv, OrderedInv, SerialInv, BaseInv, TxnTypeOK
<1>2. /\ snap' = snap
      /\ \A u \in Txns : Ended(u) => Ended(u)' /\ writes'[u] = writes[u]
      /\ \A u \in Txns : Ended(u) \/ Chosen(u) => cts'[u] = cts[u]
      /\ \A u \in Txns : Chosen(u)' /\ ~Chosen(u) =>
            cts'[u] = lastAssigned' /\ TsLess(lastAssigned, lastAssigned')
      /\ \A k \in Keys : store[k] \subseteq store'[k]
      /\ TsLeq(lastAssigned, lastAssigned')
    BY <1>1, StepMonotone
<1> DEFINE s == snap[r]
<1>3. /\ s.kind = "last" /\ s.ts \in Stamps /\ s.before \subseteq Txns /\ s.inflight \subseteq Txns
      /\ s.saw \in [Keys -> Txns \cup {NoTxn, NotRead}]
    BY <1>2 DEF SnapInv, SnapTypeOK, Sessions
<1>4. /\ TsLeq(s.ts, lastAssigned)
      /\ \A u \in s.before :
            /\ Ended(u) /\ TsLeq(cts[u], s.ts)
            /\ \A k \in writes[u] : [by |-> u, ts |-> cts[u]] \in store[k]
      /\ \A u \in Txns \ s.inflight : Chosen(u) => TsLess(s.ts, cts[u])
      /\ \A k \in Keys : Answer(r, k)
    BY <1>3 DEF SnapInv, Session
<1>5. TsLeq(s.ts, lastAssigned')
    BY <1>1, <1>2, <1>3, <1>4, TsTransitive
<1>6. ASSUME NEW u \in s.before
      PROVE  /\ Ended(u)' /\ cts'[u] = cts[u] /\ TsLeq(cts'[u], s.ts) /\ writes'[u] = writes[u]
             /\ \A k \in writes'[u] : [by |-> u, ts |-> cts'[u]] \in store'[k]
    BY <1>1, <1>2, <1>3, <1>4
<1>7. ASSUME NEW u \in Txns \ s.inflight, Chosen(u)' PROVE TsLess(s.ts, cts'[u])
    <2>1. CASE Chosen(u)
        BY <1>2, <1>4, <2>1
    <2>2. CASE ~Chosen(u)
        BY <1>1, <1>2, <1>3, <1>4, <1>7, <2>2, TsTransitive
    <2> QED BY <2>1, <2>2
<1>8. ASSUME NEW k \in Keys, s.saw[k] # NotRead
      PROVE  /\ s.saw[k] # NoTxn => \E v \in store'[k] : v.by = s.saw[k]
             /\ \A u \in s.before : k \in writes'[u] =>
                   s.saw[k] # NoTxn /\ TsLeq(cts'[u], cts'[s.saw[k]])
    <2>1. /\ s.saw[k] # NoTxn => \E v \in store[k] : v.by = s.saw[k]
          /\ \A u \in s.before : k \in writes[u] =>
                s.saw[k] # NoTxn /\ TsLeq(cts[u], cts[s.saw[k]])
        BY <1>4, <1>8 DEF Answer
    <2>2. \A v \in store[k] : v.by \in Txns /\ cts'[v.by] = cts[v.by]
        BY <1>1, <1>2 DEF SerialInv, StoreInv, VersionInv, Legitimate, Versions, Chosen
    <2> QED BY <1>2, <1>6, <2>1, <2>2
<1>9. ASSUME NEW k \in Keys, s.saw[k] # NotRead
      PROVE  ReadAt(k, s.ts)' \in {s.saw[k]} \cup s.inflight
    <2>1. ReadAt(k, s.ts) \in {s.saw[k]} \cup s.inflight
        BY <1>4, <1>9 DEF Answer
    <2>2. CASE VersionsAt(k, s.ts)' = VersionsAt(k, s.ts)
        <3>1. ReadAt(k, s.ts)' = ReadAt(k, s.ts)
            BY <1>2, <2>2 DEF ReadAt, Newest, TsLeq, TsLess
        <3> QED BY <2>1, <3>1
    <2>3. CASE VersionsAt(k, s.ts)' # VersionsAt(k, s.ts)
        <3>1. store'[k] # store[k]
            BY <1>2, <2>3 DEF VersionsAt, TsLeq, TsLess
        <3>2. PICK u \in Txns, j \in Keys : Apply(u, j)
            BY <1>1, <3>1, StoreStep
        <3> DEFINE new == [by |-> u, ts |-> cts[u]]
        <3>3. step[u] = "applying" /\ store'[k] = store[k] \cup {new} /\ new \notin store[k]
            <4>1. step[u] = "applying" /\ store' = [store EXCEPT ![j] = @ \cup {new}]
                BY <1>1, <3>2, ApplyEffect
            <4>2. k = j
                BY <1>1, <3>1, <4>1
            <4>3. store'[k] = store[k] \cup {new}
                BY <1>1, <4>1, <4>2
            <4> HIDE DEF new
            <4> QED BY <3>1, <4>1, <4>3
        <3>4. VersionsAt(k, s.ts)' = {v \in store'[k] : TsLeq(v.ts, s.ts)}
            BY <1>2 DEF VersionsAt, TsLeq, TsLess
        <3>5. TsLeq(new.ts, s.ts)
            BY <2>3, <3>3, <3>4 DEF VersionsAt
        <3>6. u \in s.inflight
            BY <1>1, <1>3, <1>4, <3>3, <3>5, TsTotal DEF Chosen
        <3>7. \A v \in store[k] : TsLess(v.ts, new.ts)
            BY <1>1, <3>3, NewVersionIsNewest
        <3> DEFINE vs == {v \in store'[k] : TsLeq(v.ts, s.ts)}
        <3>8. new \in vs /\ \A v \in vs : TsLeq(v.ts, new.ts)
            BY <3>3, <3>5, <3>7 DEF TsLeq
        <3>9. Newest(vs) \in vs /\ \A v \in vs : TsLeq(v.ts, Newest(vs).ts)
            BY <3>8 DEF Newest
        <3>10. Newest(vs) = new
            <4>1. \A v \in vs : v # new => v \in store[k] /\ v.ts \in Stamps
                BY <1>1, <3>3 DEF Versions
            <4>2. new.ts \in Stamps
                BY <1>1
            <4>3. Newest(vs) # new => TsLess(Newest(vs).ts, new.ts) /\ Newest(vs).ts \in Stamps
                BY <3>7, <3>9, <4>1
            <4> QED BY <3>8, <3>9, <4>2, <4>3, TsTotal
        <3>11. ReadAt(k, s.ts)' = Newest(vs).by
            BY <1>2, <3>4, <3>8 DEF ReadAt, Newest, TsLeq, TsLess
        <3> QED BY <3>6, <3>10, <3>11
    <2> QED BY <2>2, <2>3
<1>10. ASSUME NEW k \in Keys PROVE Answer(r, k)'
    BY <1>2, <1>8, <1>9 DEF Answer, TsLeq, TsLess
<1> QED BY <1>2, <1>5, <1>6, <1>7, <1>10 DEF Session, TsLeq, TsLess

(* A session that is opened at LastTS(). *)
LEMMA SessionOpened ==
    ASSUME Undisturbed, SnapInv, NEW r \in Snapshots, NEW kind \in {"last", "now", "at"},
           NEW ts \in Stamps, OpenSnapshot(r, kind, ts), kind = "last" => ts = lastCommit
    PROVE  SnapTypeOK' /\ Session(r)'
<1> DEFINE new == [NoSnap EXCEPT !.kind = kind, !.ts = ts, !.inflight = InFlight,
                                 !.before = {t \in Txns : tstate[t] = "committed"}]
<1>1. /\ BaseInv /\ ControlInv /\ StoreInv
      /\ writes \in [Txns -> SUBSET Keys] /\ snap \in [Snapshots -> Sessions]
    BY DEF SnapInv, SnapTypeOK, OrderedInv, SerialInv, BaseInv, TxnTypeOK
<1>2. UNCHANGED <<lastAssigned, lastCommit, step, writes, cts, store>>
    BY DEF OpenSnapshot, txnVars, mgrVars
<1>3. /\ new.kind = kind /\ new.ts = ts /\ new.inflight = InFlight
      /\ new.before = {t \in Txns : tstate[t] = "committed"}
      /\ new.saw = [k \in Keys |-> NotRead] /\ new \in Sessions
    BY DEF NoSnap, Sessions, InFlight
<1>4. snap' = [snap EXCEPT ![r] = new]
    BY DEF OpenSnapshot
<1> HIDE DEF new
<1>5. snap'[r] = new /\ SnapTypeOK'
    BY <1>1, <1>3, <1>4 DEF SnapTypeOK
<1>6. ASSUME kind = "last", NEW t \in new.before
      PROVE  /\ Ended(t) /\ TsLeq(cts[t], new.ts)
             /\ \A k \in writes[t] : [by |-> t, ts |-> cts[t]] \in store[k]
    BY <1>1, <1>3, <1>6 DEF StoreInv, WrittenInv, ControlInv, Control, Ended
<1>7. \A t \in Txns \ new.inflight : ~Chosen(t)
    BY <1>3 DEF InFlight, Chosen
<1>8. kind = "last" => TsLeq(new.ts, lastAssigned)
    BY <1>3 DEF SnapInv
<1>9. \A k \in Keys : new.saw[k] = NotRead
    BY <1>3
<1> QED BY <1>2, <1>3, <1>5, <1>6, <1>7, <1>8, <1>9
        DEF Session, Answer, Ended, Chosen, TsLeq, TsLess

(* A session that reads a key. *)
LEMMA SessionReads ==
    ASSUME Undisturbed, SnapInv, NEW r \in Snapshots, NEW k \in Keys, SnapshotRead(r, k)
    PROVE  SnapTypeOK' /\ Session(r)'
<1> DEFINE s == snap[r]
           x == ReadAt(k, s.ts)
           vs == VersionsAt(k, s.ts)
<1>1. /\ OrderedInv /\ snap \in [Snapshots -> Sessions] /\ s \in Sessions
      /\ store \in [Keys -> SUBSET Versions] /\ Session(r)
    BY DEF SnapInv, SnapTypeOK, OrderedInv, SerialInv, BaseInv, TxnTypeOK
<1>2. UNCHANGED <<lastAssigned, lastCommit, step, writes, cts, store>>
    BY DEF SnapshotRead, txnVars, mgrVars
<1>3. vs \in SUBSET store[k] /\ x = ValueOf(vs)
    BY DEF VersionsAt, ReadAt, ValueOf
<1>4. ASSUME NEW v \in vs
      PROVE  /\ x \in Txns /\ TsLeq(v.ts, cts[x])
             /\ [by |-> x, ts |-> cts[x]] \in store[k]
    BY <1>1, <1>3, <1>4, ReadAtLeast
<1>5. vs = {} => x = NoTxn
    BY <1>3 DEF ValueOf
<1>6. x \in Txns \cup {NoTxn} /\ (x # NoTxn => \E v \in store[k] : v.by = x)
    BY <1>4, <1>5
<1>7. ASSUME s.kind = "last", NEW t \in s.before, k \in writes[t]
      PROVE  x # NoTxn /\ TsLeq(cts[t], cts[x])
    <2>1. [by |-> t, ts |-> cts[t]] \in vs
        BY <1>1, <1>7 DEF Session, VersionsAt
    <2> QED BY <1>4, <2>1, TxnsAssumption DEF NoTxn
<1>8. /\ snap'[r] = [s EXCEPT !.saw[k] = x]
      /\ snap' = [snap EXCEPT ![r] = [s EXCEPT !.saw[k] = x]]
    BY <1>1 DEF SnapshotRead
<1> HIDE DEF x
<1>9. /\ snap'[r].kind = s.kind /\ snap'[r].ts = s.ts /\ snap'[r].before = s.before
      /\ snap'[r].inflight = s.inflight /\ snap'[r].saw = [s.saw EXCEPT ![k] = x]
      /\ snap'[r] \in Sessions
    BY <1>1, <1>6, <1>8 DEF Sessions
<1>10. SnapTypeOK'
    BY <1>1, <1>8, <1>9 DEF SnapTypeOK
<1>11. ASSUME s.kind = "last", NEW j \in Keys PROVE Answer(r, j)'
    <2>1. ReadAt(j, snap[r].ts)' = ReadAt(j, snap[r].ts)
        BY <1>2, <1>9 DEF ReadAt, VersionsAt, Newest, TsLeq, TsLess
    <2>2. CASE j # k
        <3>1. snap'[r].saw[j] = s.saw[j]
            BY <1>1, <1>9, <2>2 DEF Sessions
        <3>2. Answer(r, j)
            BY <1>1, <1>11 DEF Session
        <3> QED BY <1>2, <1>9, <2>1, <3>1, <3>2 DEF Answer, TsLeq, TsLess
    <2>3. CASE j = k
        <3>1. snap'[r].saw[j] = x
            BY <1>1, <1>9, <2>3 DEF Sessions
        <3>2. ReadAt(j, snap[r].ts)' = x
            BY <2>1, <2>3 DEF x
        <3> QED BY <1>2, <1>6, <1>7, <1>9, <1>11, <2>3, <3>1, <3>2 DEF Answer, TsLeq, TsLess
    <2> QED BY <2>2, <2>3
<1> QED BY <1>1, <1>2, <1>9, <1>10, <1>11 DEF Session, Ended, Chosen, TsLeq, TsLess

LEMMA SessionUntouched ==
    ASSUME NEW r \in Snapshots, Session(r), snap'[r] = snap[r],
           UNCHANGED <<lastAssigned, step, writes, cts, store>>
    PROVE  Session(r)'
<1>1. ASSUME NEW k \in Keys, Answer(r, k) PROVE Answer(r, k)'
    <2>1. ReadAt(k, snap[r].ts)' = ReadAt(k, snap[r].ts)
        BY DEF ReadAt, VersionsAt, Newest, TsLeq, TsLess
    <2> QED BY <1>1, <2>1 DEF Answer, TsLeq, TsLess
<1> QED BY <1>1 DEF Session, Ended, Chosen, TsLeq, TsLess

LEMMA SnapInit == Init => SnapInv
<1> SUFFICES ASSUME Init PROVE SnapInv
    OBVIOUS
<1>1. SerialInv
    BY SerialInit
<1>2. OrderlyStore
    BY FS_EmptySet DEF Init, OrderlyStore, Orderly
<1>3. TsLeq(lastCommit, lastAssigned)
    BY DEF Init, TsLeq
<1>4. \A r \in Snapshots : snap[r] = NoSnap
    BY DEF Init
<1>5. NoSnap \in Sessions
    BY DEF NoSnap, Sessions, NoTs, Stamps
<1>6. SnapTypeOK
    BY <1>5 DEF Init, SnapTypeOK
<1>7. \A r \in Snapshots : Session(r)
    BY <1>4 DEF Session, NoSnap
<1> QED BY <1>1, <1>2, <1>3, <1>6, <1>7 DEF SnapInv, OrderedInv

LEMMA SnapNext ==
    ASSUME Undisturbed, SnapInv, [Next]_vars
    PROVE  SnapInv'
<1>1. OrderedInv' /\ BaseInv /\ ControlInv
    BY SerialNext, OrderlyStoreKept DEF SnapInv, OrderedInv, SerialInv
<1>2. ASSUME NEW t \in Txns, TxnStep(t)
      PROVE  SnapInv'
    <2>1. /\ snap' = snap /\ TsLeq(lastAssigned, lastAssigned')
          /\ lastCommit' = lastCommit \/ lastCommit' = cts[t]
        BY <1>1, <1>2, StepMonotone
    <2>2. TsLeq(lastCommit', lastAssigned)
        BY <2>1, <1>1 DEF SnapInv, BaseInv, TimeInv
    <2>3. /\ lastAssigned \in Stamps /\ lastAssigned' \in Stamps /\ lastCommit' \in Stamps
        BY <1>1, BaseNext DEF BaseInv, TxnTypeOK
    <2>4. TsLeq(lastCommit', lastAssigned')
        BY <2>1, <2>2, <2>3, TsTransitive
    <2>5. TsLeq(lastCommit, lastAssigned)'
        BY <2>4 DEF TsLeq, TsLess
    <2>6. SnapTypeOK'
        BY <2>1 DEF SnapInv, SnapTypeOK
    <2> QED BY <1>1, <1>2, <2>5, <2>6, SessionKept DEF SnapInv
<1>3. ASSUME UNCHANGED <<lockVars, txnVars, mgrVars>>, SnapTypeOK',
             NEW r \in Snapshots, \A q \in Snapshots : q # r => snap'[q] = snap[q],
             Session(r)'
      PROVE  SnapInv'
    <2>1. UNCHANGED <<lastAssigned, lastCommit, step, writes, cts, store>>
        BY <1>3 DEF txnVars, mgrVars
    <2>2. \A q \in Snapshots : Session(q)'
        BY <1>3, <2>1, SessionUntouched DEF SnapInv
    <2>3. TsLeq(lastCommit, lastAssigned)'
        BY <2>1 DEF SnapInv, TsLeq, TsLess
    <2> QED BY <1>1, <1>3, <2>2, <2>3 DEF SnapInv
<1>4. ASSUME NEW r \in Snapshots, NEW kind \in {"last", "now", "at"}, NEW ts \in Stamps,
             OpenSnapshot(r, kind, ts), kind = "last" => ts = lastCommit
      PROVE  SnapInv'
    BY <1>3, <1>4, SessionOpened DEF OpenSnapshot, SnapInv, SnapTypeOK
<1>5. ASSUME NEW r \in Snapshots, BeginReadOnly(r) \/ BeginReadAt(r) PROVE SnapInv'
    <2>1. lastCommit \in Stamps /\ <<Physical, 0>> \in Stamps
          /\ \A p \in 1..MaxTime : <<p, 0>> \in Stamps
        BY <1>1, EpsAssumption DEF BaseInv, TxnTypeOK, Stamps, Physical
    <2> QED BY <1>4, <1>5, <2>1 DEF BeginReadOnly, BeginReadAt
<1>6. ASSUME NEW r \in Snapshots, NEW k \in Keys, SnapshotRead(r, k) PROVE SnapInv'
    BY <1>3, <1>6, SessionReads DEF SnapshotRead, SnapInv, SnapTypeOK
<1>7. CASE UNCHANGED <<lockVars, txnVars, mgrVars, snap>>
    <2>1. UNCHANGED <<lastAssigned, lastCommit, step, writes, cts, store, snap>>
        BY <1>7 DEF txnVars, mgrVars
    <2>2. \A q \in Snapshots : Session(q)'
        BY <2>1, SessionUntouched DEF SnapInv
    <2> QED BY <1>1, <2>1, <2>2 DEF SnapInv, SnapTypeOK, TsLeq, TsLess
<1>8. Tick \/ ClockAdjust \/ Finished \/ UNCHANGED vars
        => UNCHANGED <<lockVars, txnVars, mgrVars, snap>>
    BY DEF Tick, ClockAdjust, Finished, vars
<1> QED BY <1>2, <1>5, <1>6, <1>7, <1>8 DEF Next

(* The inductive invariant behind the snapshots. *)
THEOREM SnapInvariant ==
    ASSUME Undisturbed
    PROVE  Spec => []SnapInv
<1>1. Init => SnapInv
    BY SnapInit
<1>2. SnapInv /\ [Next]_vars => SnapInv'
    BY SnapNext
<1> QED BY <1>1, <1>2, PTL DEF Spec

(* "Two RW txns can never both read the same pre-image and both commit"
   (Transaction.get): no update is lost. *)
THEOREM NoLostUpdateHolds ==
    ASSUME Undisturbed
    PROVE  Spec => []NoLostUpdate
<1>1. SnapInv => NoLostUpdate
    BY NoLostUpdateInv DEF SnapInv
<1> QED BY <1>1, SnapInvariant, PTL

(* A read-only transaction at LastTS() reads every commit that had returned
   when it began, or a later one (TransactionManager.begin, last_ts). *)
THEOREM SnapshotsAreRecentHolds ==
    ASSUME Undisturbed
    PROVE  Spec => []SnapshotsAreRecent
<1>1. SnapInv => SnapshotsAreRecent
    BY DEF SnapInv, Session, Answer, SnapshotsAreRecent
<1> QED BY <1>1, SnapInvariant, PTL

(* What a read-only transaction at LastTS() has read is changed at most by
   commits that had a timestamp and were not yet applied when it began: the
   extent to which snapshots of this manager are unstable. *)
THEOREM UnstableOnlyByInFlightHolds ==
    ASSUME Undisturbed
    PROVE  Spec => []UnstableOnlyByInFlight
<1>1. SnapInv => UnstableOnlyByInFlight
    BY DEF SnapInv, Session, Answer, UnstableOnlyByInFlight
<1> QED BY <1>1, SnapInvariant, PTL
=============================================================================
