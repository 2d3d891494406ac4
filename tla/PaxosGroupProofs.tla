-------------------------- MODULE PaxosGroupProofs --------------------------
(***************************************************************************)
(* Proofs about PaxosGroup, for any group, callers, bounds and losses of   *)
(* messages: while the conditions that each needs are kept, a (term, slot) *)
(* has one value, a leader holds what was chosen before it, and the group  *)
(* is a ReplicatedLog.                                                     *)
(*                                                                         *)
(* The inductive invariant.  A term that was won (Won) belongs to one      *)
(* replica and has reached a quorum, and none above the term of a leader   *)
(* is won while its lease lasts (ElectionInv); so an entry of a term has   *)
(* one value, and a leader writes no second one (LogInv).  Once no quorum  *)
(* is left that could win a later term without having seen an entry, the   *)
(* entry is safe: every later one for its slot, in a log, in a call or on  *)
(* its way, has its value, and every later leader holds it or has found it *)
(* (Safe).  A chosen value is safe and held by a quorum (Decided,          *)
(* ValueInv).                                                              *)
(*                                                                         *)
(* The types need no condition, the elections and the entries those of     *)
(* UniqueConditions, what is chosen those of CompleteConditions, and what  *)
(* is committed all five; no condition that was broken is kept again.      *)
(*                                                                         *)
(* A step lemma (...Step) says what may have changed after a step; an      *)
(* effect lemma (...Effect) what one action does.                          *)
(***************************************************************************)
EXTENDS PaxosGroup, FiniteSetTheorems, NaturalsInduction, WellFoundedInduction, TLAPS

-----------------------------------------------------------------------------
(* The invariant *)

Phases == {"idle", "vote", "sync", "redrive", "drive", "commit"}
Terms == 0..MaxTerm
Entry == [term : Terms, value : Values]
Log == [Slots -> Entry \cup {NoEntry}]
Driven == [slot : Slots, value : Values]
Job == [phase : Phases, at : Replicas, term : Terms, asked : 0..Members, yes : SUBSET Replicas,
        lapsed : BOOLEAN, merged : Log, todo : SUBSET Driven,
        calls : {"none", "election", "propose"}, ready : BOOLEAN]

TypeOK ==
    /\ role \in [Replicas -> {"follower", "candidate", "leader"}]
    /\ term \in [Replicas -> Terms]
    /\ vote \in [Replicas -> 0..Members]
    /\ backers \in [Replicas -> SUBSET Replicas]
    /\ log \in [Replicas -> Log]
    /\ committed \in [Replicas -> SUBSET Slots]
    /\ nextSlot \in [Replicas -> 1..MaxSlot + 1]
    /\ applied \in [Replicas -> Seq(Values)]
    /\ job \in [Callers -> Job]
    /\ late \in SUBSET [to : Replicas, term : Terms, slot : Slots, value : Values]
    /\ lateVotes \in SUBSET [to : Replicas, candidate : Replicas, term : Terms]
    /\ lateCommits \in SUBSET [to : Replicas, slot : Slots, term : Terms]
    /\ used \in SUBSET Terms
    /\ proposals \in 0..MaxProposals
    /\ chosen \in [Slots -> SUBSET Values]
    /\ kept \in SUBSET Conditions

(* The conditions each part of the invariant needs. *)
Unique == UniqueConditions \subseteq kept
Complete == CompleteConditions \subseteq kept
Follow == kept = Conditions
InRound == "commits follow" \in kept

(* What the phase of a call says about the call. *)
JobOK(j) ==
    /\ j.phase \in {"vote", "sync"} => j.calls = "election"
    /\ j.phase = "idle" => j.ready /\ j.calls = "none"
    /\ j.phase = "redrive" => ~j.ready
    /\ ~j.ready => j.calls = "propose"
    /\ j.phase = "commit" => j.todo # {}
    /\ j.phase = "vote" => j.merged = EmptyLog
JobInv == \A c \in Callers : JobOK(job[c])

(* A replica that may give entries its own term. *)
Leads(r) == HasLease(r) \/ Preparing(r)

(* An entry some log holds or some call may still write. *)
Held(t, s, v) == \E q \in Replicas : log[q][s].term = t /\ log[q][s].value = v /\ log[q][s] # NoEntry
Delayed(t, s, v) == \E m \in late : m.term = t /\ m.slot = s /\ m.value = v
Drives(c, t, s, v) ==
    /\ job[c].phase \in {"drive", "commit"} /\ job[c].term = t
    /\ \E e \in job[c].todo : e.slot = s /\ e.value = v
Found(c, t, s, v) ==
    /\ job[c].phase = "sync" /\ job[c].merged[s] # NoEntry
    /\ job[c].merged[s].term = t /\ job[c].merged[s].value = v
Known(t, s, v) ==
    \/ Held(t, s, v) \/ Delayed(t, s, v)
    \/ \E c \in Callers : Drives(c, t, s, v) \/ Found(c, t, s, v)

(* Calls whose election was won, or that took the term of a leader. *)
Serving(c) == job[c].phase \in {"sync", "drive", "commit"}

(* The terms that were won and still matter. *)
Won(t) ==
    \/ \E s \in Slots, v \in Values : Known(t, s, v)
    \/ \E c \in Callers : Serving(c) /\ job[c].term = t
    \/ \E r \in Replicas : Leads(r) /\ term[r] = t

Reached(t) == {q \in Replicas : term[q] >= t}
Below(t) == {q \in Replicas : term[q] <= t}
(* Those that said yes or still may, in the loop the call is in. *)
Possible(c) == job[c].yes \cup {q \in Below(job[c].term) : q > job[c].asked}

TermInv ==
    /\ \A t \in Terms : Won(t) => t \in used /\ t > 0 /\ IsQuorum(Reached(t))
    /\ \A q \in Replicas, s \in Slots : log[q][s].term <= term[q]
    /\ \A r \in Replicas, c \in Callers :
          Preparing(r) /\ job[c].at = r => job[c].calls # "election"

(* The elections whose votes are being counted. *)
Electing(c) == job[c].phase = "vote"
CountInv ==
    /\ \A c \in Callers : Electing(c) =>
          /\ job[c].term \in used /\ job[c].term > 0 /\ ~Won(job[c].term)
          /\ role[job[c].at] = "candidate" /\ term[job[c].at] = job[c].term
    /\ \A c, d \in Callers : Electing(c) /\ Electing(d) /\ c # d =>
          job[c].at # job[d].at /\ job[c].term # job[d].term

(* A vote that was not handled in time was asked for by another replica, which alone
   may still be counting votes of its term. *)
DelayInv == \A m \in lateVotes :
    /\ m.to # m.candidate /\ m.term \in used
    /\ \A c \in Callers : Electing(c) /\ job[c].term = m.term => job[c].at = m.candidate

(* A term belongs to one replica. *)
OwnInv ==
    /\ \A r, q \in Replicas : Leads(r) /\ Leads(q) /\ term[r] = term[q] => r = q
    /\ \A r \in Replicas, c \in Callers :
          Leads(r) /\ Serving(c) /\ job[c].term = term[r] => job[c].at = r
    /\ \A c \in Callers : job[c].phase = "sync" =>
          /\ \A s \in Slots, v \in Values : ~Known(job[c].term, s, v)
          /\ \A d \in Callers : Serving(d) /\ job[d].term = job[c].term => c = d

Asks(c) == job[c].phase \in {"vote", "sync"}
BackInv ==
    /\ \A r \in Replicas : backers[r] # {} => IsQuorum(backers[r])
    /\ \A r \in Replicas : \A v \in backers[r] : vote[v] = r
    /\ \A c \in Callers : \A v \in job[c].yes :
          /\ Asks(c) => term[v] >= job[c].term
          /\ Electing(c) /\ ~job[c].lapsed => vote[v] = job[c].at

LeaseInv ==
    /\ \A c, d \in Callers : \A v \in job[c].yes \cap job[d].yes :
          Electing(c) /\ Electing(d) /\ ~job[c].lapsed /\ job[c].at # job[d].at =>
              job[d].term <= job[c].term
    /\ \A r \in Replicas, d \in Callers : \A v \in backers[r] \cap job[d].yes :
          HasLease(r) /\ Electing(d) /\ job[d].at # r => job[d].term <= term[r]
    /\ \A r \in Replicas, t \in Terms : HasLease(r) /\ Won(t) => t <= term[r]
    /\ \A c \in Callers, t \in Terms :
          Electing(c) /\ ~job[c].lapsed /\ IsQuorum(Possible(c)) /\ Won(t) => t <= job[c].term

ElectionInv == TermInv /\ CountInv /\ DelayInv /\ OwnInv /\ BackInv /\ LeaseInv

(* The election at r, of the term r leads in, will still ask r itself to
   accept an entry for slot s. *)
Awaits(k, r, s) ==
    /\ k.calls = "election" /\ k.at = r /\ k.phase \in {"drive", "commit"}
    /\ \E e \in k.todo : e.slot = s
    /\ s = First(k.todo).slot => k.phase = "drive" /\ k.asked < r
Pending(r, s) == \E d \in Callers : Awaits(job[d], r, s) /\ job[d].term = term[r]
Syncing(r) == \E d \in Callers :
    job[d].phase = "sync" /\ job[d].at = r /\ job[d].term = term[r]

Placed == \A q \in Replicas, s \in Slots : log[q][s] # NoEntry => nextSlot[q] > s
OneValueKnown == \A t \in Terms, s \in Slots, v, w \in Values :
    Known(t, s, v) /\ Known(t, s, w) => v = w
LeaderKeeps == \A r \in Replicas, s \in Slots, v \in Values :
    Leads(r) /\ Known(term[r], s, v) =>
        /\ nextSlot[r] > s
        /\ log[r][s] = NoEntry \/ log[r][s].value = v \/ Pending(r, s)

Safe(t, s, v) ==
    /\ t > 0 /\ t \in used /\ \A d \in Callers : Asks(d) => job[d].term # t
    /\ \A u \in Terms, w \in Values : Known(u, s, w) /\ u >= t => w = v
    /\ \A d \in Callers : job[d].phase = "sync" /\ job[d].term > t =>
          \/ job[d].merged[s].term >= t
          \/ \E q \in job[d].yes : q > job[d].asked /\ log[q][s].term >= t
    /\ \A r \in Replicas : Leads(r) /\ term[r] > t =>
          Syncing(r) \/ (nextSlot[r] > s /\ (log[r][s].term >= t \/ Pending(r, s)))
    /\ \A r \in Replicas : Leads(r) /\ term[r] = t =>
          nextSlot[r] > s /\ (log[r][s] = NoEntry \/ log[r][s].value = v \/ Pending(r, s))

Holders(t, s) == {q \in Replicas : log[q][s].term >= t}
Decided(t, s, v) ==
    /\ IsQuorum(Holders(t, s)) /\ Safe(t, s, v)
    /\ \A r \in Replicas : Leads(r) /\ term[r] = t => log[r][s].term >= t

DriveInv == \A c \in Callers : job[c].phase = "drive" /\ job[c].todo # {} =>
    LET e == First(job[c].todo)  j == job[c] IN
    /\ IsQuorum(Possible(c)) => Safe(j.term, e.slot, e.value)
    /\ \A q \in j.yes : log[q][e.slot].term >= j.term
    /\ j.at <= j.asked => log[j.at][e.slot].term >= j.term \/ term[j.at] > j.term
CommitInv == \A c \in Callers : job[c].phase = "commit" =>
    LET e == First(job[c].todo) IN
    Decided(job[c].term, e.slot, e.value) /\ e.value \in chosen[e.slot]
ChosenInv == \A s \in Slots : \A v \in chosen[s] : \E t \in Terms : Decided(t, s, v)
CommittedInv == \A r \in Replicas : \A s \in committed[r] : \E v \in chosen[s], t \in Terms :
    Decided(t, s, v) /\ log[r][s].term >= t
(* A commit that was not handled in time is about a round that chose a value. *)
StrayInv == \A m \in lateCommits : \E v \in chosen[m.slot] : Decided(m.term, m.slot, v)

LogInv == Placed /\ OneValueKnown /\ LeaderKeeps
ValueInv == DriveInv /\ CommitInv /\ ChosenInv /\ StrayInv

BaseInv == TypeOK /\ JobInv
IInv ==
    /\ BaseInv
    /\ Unique => ElectionInv /\ LogInv
    /\ Complete => ValueInv
    /\ Follow => CommittedInv

-----------------------------------------------------------------------------
(* Quorums, least and greatest elements *)

(* Two quorums have a replica in common. *)
LEMMA QuorumsMeet ==
    ASSUME NEW P \in SUBSET Replicas, NEW Q \in SUBSET Replicas, IsQuorum(P), IsQuorum(Q)
    PROVE  \E q \in P : q \in Q
<1>1. IsFiniteSet(Replicas) /\ Cardinality(Replicas) = Members /\ Members \in Nat
    BY BoundsAssumption, FS_Interval DEF Replicas
<1>2. Cardinality(P) \in Nat /\ Cardinality(Q) \in Nat
    BY <1>1, FS_CardinalityType, FS_Subset
<1>3. Cardinality(P) + Cardinality(Q) > Cardinality(Replicas)
    BY <1>1, <1>2 DEF IsQuorum
<1>4. P \cap Q # {}
    BY <1>1, <1>3, FS_MajoritiesIntersect
<1> QED BY <1>4

(* A set that contains a quorum is one. *)
LEMMA QuorumGrows ==
    ASSUME NEW Q \in SUBSET Replicas, NEW P \in SUBSET Q, IsQuorum(P)
    PROVE  IsQuorum(Q)
<1>0. Members \in Nat
    BY BoundsAssumption
<1>1. IsFiniteSet(Replicas) /\ Members \in Nat
    BY <1>0, FS_Interval DEF Replicas
<1>2. IsFiniteSet(Q) /\ IsFiniteSet(P) /\ Cardinality(P) <= Cardinality(Q)
    BY <1>1, FS_Subset
<1>3. Cardinality(P) \in Nat /\ Cardinality(Q) \in Nat
    BY <1>2, FS_CardinalityType
<1> QED BY <1>1, <1>2, <1>3 DEF IsQuorum

(* Some entry of a non-empty set of them has the lowest slot; First picks it. *)
LEMMA FirstIsLeast ==
    ASSUME NEW S \in SUBSET Driven, S # {}
    PROVE  First(S) \in S /\ First(S) \in Driven
<1> DEFINE At == {e.slot : e \in S}
<1>1. At \in SUBSET Nat /\ At # {}
    BY DEF Driven, Slots
<1>2. PICK m \in At : \A n \in At : ~(<<n, m>> \in OpToRel(<, Nat))
    BY <1>1, WFMin, NatLessThanWellFounded, Zenon
<1>3. PICK e \in S : m = e.slot
    BY <1>2
<1>4. ASSUME NEW f \in S PROVE e.slot <= f.slot
    <2>1. f.slot \in At /\ f.slot \in Nat /\ m \in Nat
        BY <1>1, <1>2
    <2>2. ~(f.slot < m)
        BY <1>2, <2>1 DEF OpToRel
    <2> QED BY <1>3, <2>1, <2>2
<1> QED BY <1>3, <1>4 DEF First

(* Max of a non-empty bounded set is its greatest element. *)
LEMMA MaxIsGreatest ==
    ASSUME NEW top \in Nat, NEW S \in SUBSET (0..top), S # {}
    PROVE  Max(S) \in S /\ \A y \in S : y <= Max(S)
<1> DEFINE Gaps == {top - x : x \in S}
<1>1. \A x \in S : x \in Nat /\ top - x \in Nat
    OBVIOUS
<1>2. Gaps \in SUBSET Nat /\ Gaps # {}
    BY <1>1, Zenon
<1>3. PICK m \in Gaps : \A g \in Gaps : ~(<<g, m>> \in OpToRel(<, Nat))
    BY <1>2, WFMin, NatLessThanWellFounded
<1>4. PICK x \in S : m = top - x
    BY <1>3
<1>5. \A y \in S : x >= y
    <2>1. TAKE y \in S
    <2>2. top - y \in Gaps /\ top - y \in Nat /\ m \in Nat
        BY <1>1, <1>3, <1>2
    <2>3. ~(top - y < m)
        BY <1>3, <2>2 DEF OpToRel
    <2> QED BY <1>1, <1>4, <2>2, <2>3
<1> QED BY <1>5, <1>1 DEF Max

-----------------------------------------------------------------------------
(* What each step makes of a call *)

SameCall(k, j) == k.at = j.at /\ k.term = j.term /\ k.calls = j.calls /\ k.ready = j.ready
GoesOn(k, j) ==
    /\ SameCall(k, j) /\ k.phase = j.phase /\ k.lapsed = j.lapsed
    /\ k.merged = j.merged /\ k.todo = j.todo
YesFrom(k, j, v) == k.yes = j.yes \/ k.yes = j.yes \cup {v}

(* What asking one more replica leaves of a call. *)
LEMMA AskedFields ==
    ASSUME NEW j \in Job, NEW v \in Replicas, NEW k,
           k = Asked(j, v, TRUE) \/ k = Asked(j, v, FALSE)
    PROVE  /\ k \in Job /\ k.asked = v /\ GoesOn(k, j)
           /\ YesFrom(k, j, v)
<1>1. PICK Y \in SUBSET Replicas :
          /\ k = [j EXCEPT !.asked = v, !.yes = Y]
          /\ Y = j.yes \/ Y = j.yes \cup {v}
    BY DEF Asked, Job
<1>2. v \in 0..Members
    BY DEF Replicas
<1>3. k \in Job
    BY <1>1, <1>2 DEF Job
<1>4. k.asked = v /\ k.yes = Y
    BY <1>1 DEF Job
<1>5. \A f \in DOMAIN j : f # "asked" /\ f # "yes" => k[f] = j[f]
    BY <1>1 DEF Job
<1> QED BY <1>1, <1>3, <1>4, <1>5 DEF Job, GoesOn, SameCall, YesFrom

(* What a call keeps when it starts a new loop. *)
LEMMA PhaseFields ==
    ASSUME NEW j \in Job, NEW p \in Phases
    PROVE  LET k == Phase(j, p) IN
           /\ k \in Job /\ k.phase = p /\ k.asked = 0 /\ k.yes = {}
           /\ k.at = j.at /\ k.term = j.term /\ k.lapsed = j.lapsed
           /\ k.merged = j.merged /\ k.todo = j.todo /\ k.calls = j.calls /\ k.ready = j.ready
<1>1. {} \in SUBSET Replicas /\ 0 \in 0..Members
    BY BoundsAssumption
<1>2. Phase(j, p) \in Job
    BY <1>1 DEF Phase, Job
<1>3. Phase(j, p).phase = p /\ Phase(j, p).asked = 0 /\ Phase(j, p).yes = {}
    BY DEF Phase, Job
<1>4. \A f \in DOMAIN j : f \notin {"phase", "asked", "yes"} => Phase(j, p)[f] = j[f]
    BY DEF Phase, Job
<1> QED BY <1>2, <1>3, <1>4 DEF Job

(* The fields of a caller that is in no call. *)
LEMMA IdleFields ==
    /\ Idle \in Job /\ Idle.phase = "idle" /\ Idle.ready = TRUE /\ Idle.yes = {}
    /\ Idle.calls = "none" /\ Idle.todo = {} /\ Idle.at = 1 /\ Idle.term = 0
    /\ Idle.merged = EmptyLog /\ Idle.lapsed = FALSE /\ Idle.asked = 0
<1>1. EmptyLog \in Log
    BY DEF EmptyLog, Log
<1> QED BY <1>1, BoundsAssumption DEF Idle, Job, Phases, Replicas, Terms

(* Drive starts the loop over the replicas, or returns. *)
LEMMA DriveFields ==
    ASSUME NEW j \in Job, NEW S \in SUBSET Driven
    PROVE  LET k == Drive(j, S) IN
           /\ k \in Job
           /\ S = {} /\ j.ready => k = Idle
           /\ ~(S = {} /\ j.ready) =>
                 /\ k.phase = "drive" /\ k.asked = 0 /\ k.yes = {} /\ k.todo = S
                 /\ k.at = j.at /\ k.term = j.term /\ k.lapsed = j.lapsed
                 /\ k.merged = j.merged /\ k.calls = j.calls /\ k.ready = j.ready
<1>1. "drive" \in Phases
    BY DEF Phases
<1>2. CASE S = {} /\ j.ready
    BY <1>2, IdleFields DEF Drive
<1>3. CASE ~(S = {} /\ j.ready)
    <2>1. Drive(j, S) = [Phase(j, "drive") EXCEPT !.todo = S]
        BY <1>3 DEF Drive
    <2> QED BY <1>1, <1>3, <2>1, PhaseFields DEF Job
<1> QED BY <1>2, <1>3
(* The entries of a log, as entries to drive. *)
LEMMA EntriesFields ==
    ASSUME NEW l \in Log
    PROVE  /\ Entries(l) \in SUBSET Driven
           /\ \A e \in Entries(l) : l[e.slot] # NoEntry /\ e.value = l[e.slot].value
           /\ \A s \in Slots : l[s] # NoEntry => \E e \in Entries(l) : e.slot = s
<1>1. \A s \in Slots : l[s] # NoEntry => l[s].value \in Values
    BY DEF Log, Entry
<1>2. Entries(l) \in SUBSET Driven
    BY <1>1 DEF Entries, Driven
<1>3. \A e \in Entries(l) : l[e.slot] # NoEntry /\ e.value = l[e.slot].value
    BY DEF Entries
<1>4. ASSUME NEW s \in Slots, l[s] # NoEntry PROVE \E e \in Entries(l) : e.slot = s
    <2>1. [slot |-> s, value |-> l[s].value] \in Entries(l)
        BY <1>4 DEF Entries
    <2> QED BY <2>1
<1> QED BY <1>2, <1>3, <1>4

(* A merged log takes each slot from one of the two, never of a lower term. *)
LEMMA MergeFields ==
    ASSUME NEW k \in Log, NEW l \in Log
    PROVE  /\ Merge(k, l) \in Log
           /\ \A s \in Slots : /\ Merge(k, l)[s] \in {k[s], l[s]}
                               /\ Merge(k, l)[s].term >= k[s].term
                               /\ Merge(k, l)[s].term >= l[s].term
<1>1. \A s \in Slots : k[s].term \in Nat /\ l[s].term \in Nat
    BY BoundsAssumption DEF Log, Entry, NoEntry, Terms
<1>2. \A s \in Slots : Merge(k, l)[s] = IF k[s].term < l[s].term THEN l[s] ELSE k[s]
    BY DEF Merge
<1>3. Merge(k, l) \in Log
    BY DEF Merge, Log
<1> QED BY <1>1, <1>2, <1>3

-----------------------------------------------------------------------------
(* What each action makes of the call that takes it *)

Others(c) == \A d \in Callers \ {c} : job'[d] = job[d]
AskedNo(c) == Next1(c) \in Replicas /\ job'[c] = Asked(job[c], Next1(c), FALSE)
AskedYes(c) == Next1(c) \in Replicas /\ job'[c] = Asked(job[c], Next1(c), TRUE)

(* A reply, or none, moves the call on to the next replica. *)
LEMMA AskedEffect ==
    ASSUME TypeOK, NEW c \in Callers, AskedYes(c) \/ AskedNo(c)
    PROVE  LET j == job[c]  k == job'[c] IN
           k \in Job /\ k.asked = j.asked + 1 /\ GoesOn(k, j) /\ YesFrom(k, j, k.asked)
<1>1. job[c] \in Job /\ Next1(c) = job[c].asked + 1 /\ Next1(c) \in Replicas
    BY DEF TypeOK, Next1, AskedYes, AskedNo
<1>2. job'[c] = Asked(job[c], Next1(c), TRUE) \/ job'[c] = Asked(job[c], Next1(c), FALSE)
    BY DEF AskedYes, AskedNo
<1> QED BY <1>1, <1>2, AskedFields

(* A replica that did not say yes is not counted. *)
LEMMA AskedNoEffect ==
    ASSUME TypeOK, NEW c \in Callers, AskedNo(c)
    PROVE  job'[c].yes = job[c].yes
BY DEF AskedNo, Asked, TypeOK, Job

(* A re-drive goes on with the slots after the lowest. *)
LEMMA DriveRestFields ==
    ASSUME NEW j \in Job
    PROVE  LET k == DriveRest(j) IN
           /\ k \in Job
           /\ k = Idle \/ /\ SameCall(k, j) /\ k.phase = "drive" /\ k.asked = 0 /\ k.yes = {}
                          /\ k.todo = j.todo \ {First(j.todo)}
           /\ ~j.ready => k # Idle
<1>1. j.todo \ {First(j.todo)} \in SUBSET Driven
    BY DEF Job
<1> QED BY <1>1, DriveFields, IdleFields DEF DriveRest, SameCall

(* What request_leadership does to its call. *)
LEMMA RequestLeadershipEffect ==
    ASSUME TypeOK, NEW c \in Callers, NEW r \in Candidates, RequestLeadership(c, r)
    PROVE  LET k == job'[c] IN
           /\ job' = [job EXCEPT ![c] = k] /\ Others(c)
           /\ k \in Job /\ k.phase = "vote" /\ k.at = r /\ k.term = term[r] + 1 /\ k.asked = 0
           /\ k.yes = {} /\ k.lapsed = FALSE /\ k.todo = {}
           /\ k.merged = EmptyLog /\ k.calls = "election" /\ k.ready = TRUE
           /\ r \in Replicas /\ term[r] \in Nat /\ term[r] + 1 \in Terms
<1>1. r \in Replicas /\ term[r] \in Nat /\ term[r] + 1 \in Terms
    <2>1. r \in Replicas
        BY BoundsAssumption DEF Replicas
    <2>2. term[r] \in 0..MaxTerm /\ MaxTerm \in Nat /\ term[r] < MaxTerm
        BY <2>1, BoundsAssumption DEF TypeOK, Terms, RequestLeadership
    <2> QED BY <2>1, <2>2 DEF Terms
<1> DEFINE k == [Idle EXCEPT !.phase = "vote", !.calls = "election", !.at = r,
                             !.term = term'[r]]
<1>2. term'[r] = term[r] + 1 /\ job' = [job EXCEPT ![c] = k]
    BY <1>1 DEF RequestLeadership, TypeOK
<1>3. job'[c] = k /\ \A d \in Callers \ {c} : job'[d] = job[d]
    BY <1>2 DEF TypeOK
<1>4. k \in Job /\ k.phase = "vote" /\ k.at = r /\ k.term = term[r] + 1 /\ k.calls = "election"
    BY <1>1, <1>2, IdleFields DEF Job, Phases
<1>5. \A f \in DOMAIN Idle : f \notin {"phase", "calls", "at", "term"} => k[f] = Idle[f]
    BY DEF Idle
<1>6. /\ k.yes = Idle.yes /\ k.lapsed = Idle.lapsed /\ k.todo = Idle.todo
      /\ k.merged = Idle.merged /\ k.ready = Idle.ready /\ k.asked = Idle.asked
    BY <1>5 DEF Idle
<1> HIDE DEF k
<1> QED BY <1>1, <1>2, <1>3, <1>4, <1>6, IdleFields DEF Others

(* The replica asked next is one of the group. *)
LEMMA NextAsked ==
    ASSUME TypeOK, NEW c \in Callers, job[c].asked < Members
    PROVE  Next1(c) \in Replicas /\ Next1(c) = job[c].asked + 1 /\ job[c].asked \in Nat
<1>1. job[c].asked \in 0..Members /\ Members \in Nat
    BY BoundsAssumption DEF TypeOK, Job
<1> QED BY <1>1 DEF Next1, Replicas

(* What a vote, or a refused or lost one, does to its call. *)
LEMMA VoteEffect ==
    ASSUME TypeOK, NEW c \in Callers, AskVote(c) \/ NoVote(c)
    PROVE  /\ job' = [job EXCEPT ![c] = job'[c]] /\ Others(c)
           /\ (AskVote(c) /\ AskedYes(c)) \/ AskedNo(c)
           /\ job[c].phase = "vote"
<1>1. Next1(c) \in Replicas /\ job[c].phase = "vote"
    <2>1. Asking(c, "vote")
        BY DEF AskVote, NoVote
    <2> QED BY <2>1, NextAsked DEF Asking
<1>2. \E ok \in BOOLEAN : /\ job' = [job EXCEPT ![c] = Asked(job[c], Next1(c), ok)]
                          /\ ok => AskVote(c)
    BY DEF AskVote, NoVote
<1>3. \/ job' = [job EXCEPT ![c] = Asked(job[c], Next1(c), TRUE)] /\ AskVote(c)
      \/ job' = [job EXCEPT ![c] = Asked(job[c], Next1(c), FALSE)]
    BY <1>2
<1> QED BY <1>1, <1>3 DEF Others, AskedNo, AskedYes, TypeOK

(* What a won election does to its call. *)
LEMMA WinEffect ==
    ASSUME TypeOK, NEW c \in Callers, Win(c)
    PROVE  LET j == job[c]  k == job'[c] IN
           /\ job' = [job EXCEPT ![c] = k] /\ Others(c)
           /\ k \in Job /\ k.phase = "sync" /\ k.asked = 0 /\ SameCall(k, j) /\ k.yes = j.yes
           /\ k.merged = j.merged /\ k.todo = j.todo /\ j.phase = "vote" /\ j \in Job
<1> DEFINE j == job[c]  k == [j EXCEPT !.phase = "sync", !.asked = 0, !.lapsed = FALSE]
<1>1. job'[c] = k /\ job' = [job EXCEPT ![c] = k] /\ j \in Job /\ j.phase = "vote"
    BY DEF Win, TypeOK, AskedAll
<1>2. k \in Job /\ k.phase = "sync" /\ k.asked = 0
    <2>1. "sync" \in Phases /\ 0 \in 0..Members /\ FALSE \in BOOLEAN
        BY BoundsAssumption DEF Phases
    <2> QED BY <1>1, <2>1 DEF Job
<1>3. \A f \in DOMAIN j : f \notin {"phase", "asked", "lapsed"} => k[f] = j[f]
    BY <1>1 DEF Job
<1>4. SameCall(k, j) /\ k.yes = j.yes /\ k.merged = j.merged /\ k.todo = j.todo
    BY <1>1, <1>3 DEF Job, SameCall
<1> HIDE DEF k
<1> QED BY <1>1, <1>2, <1>4 DEF Others, TypeOK

(* What returning does to a call. *)
LEMMA EndedEffect ==
    ASSUME TypeOK, NEW c \in Callers, job' = [job EXCEPT ![c] = Idle]
    PROVE  job'[c] = Idle /\ Others(c) /\ job'[c] \in Job
BY IdleFields DEF TypeOK, Others

(* The end of a vote at most marks the elections that counted it. *)
LEMMA VoteEndsEffect ==
    ASSUME TypeOK, NEW v \in Replicas, VoteEnds(v), NEW c \in Callers
    PROVE  LET j == job[c]  k == job'[c] IN
           /\ k \in Job /\ SameCall(k, j) /\ k.phase = j.phase /\ k.yes = j.yes
           /\ k.merged = j.merged /\ k.todo = j.todo /\ k.asked = j.asked
           /\ j.lapsed => k.lapsed
           /\ j.phase = "vote" /\ j.at = vote[v] /\ v \in j.yes => k.lapsed
<1> DEFINE j == job[c]  k == [j EXCEPT !.lapsed = TRUE]
<1>1. j \in Job
    BY DEF TypeOK
<1>2. /\ k \in Job /\ SameCall(k, j) /\ k.phase = j.phase /\ k.yes = j.yes
      /\ k.merged = j.merged /\ k.todo = j.todo /\ k.asked = j.asked /\ k.lapsed
    BY <1>1 DEF Job, SameCall
<1>3. job'[c] = IF j.phase = "vote" /\ j.at = vote[v] /\ v \in j.yes THEN k ELSE j
    BY DEF VoteEnds
<1> HIDE DEF k, j
<1>4. CASE j.phase = "vote" /\ j.at = vote[v] /\ v \in j.yes
    BY <1>2, <1>3, <1>4 DEF j
<1>5. CASE ~(j.phase = "vote" /\ j.at = vote[v] /\ v \in j.yes)
    <2>1. job'[c] = j
        BY <1>3, <1>5
    <2> QED BY <1>1, <1>5, <2>1 DEF SameCall, j
<1> QED BY <1>4, <1>5

(* What one reply to the sync, or its loss, does to its call. *)
LEMMA SyncEffect ==
    ASSUME TypeOK, NEW c \in Callers, Sync(c)
    PROVE  LET j == job[c]  k == job'[c]  v == Next1(c) IN
           /\ job' = [job EXCEPT ![c] = k] /\ Others(c)
           /\ k \in Job /\ SameCall(k, j) /\ k.phase = "sync" /\ j.phase = "sync"
           /\ k.lapsed = j.lapsed /\ k.yes = j.yes /\ k.todo = j.todo
           /\ v \in Replicas /\ v = j.asked + 1 /\ k.asked = v
           /\ \/ k.merged = Merge(j.merged, log[v])
              \/ k.merged = j.merged /\ ("voters answer" \in kept' => v \notin j.yes)
<1> DEFINE j == job[c]  v == Next1(c)
<1>1. j.phase = "sync" /\ v \in Replicas /\ v = j.asked + 1 /\ v \in 0..Members /\ j \in Job
    <2>1. Asking(c, "sync")
        BY DEF Sync
    <2>2. v \in Replicas /\ v = j.asked + 1
        BY <2>1, NextAsked DEF Asking
    <2> QED BY <2>1, <2>2 DEF Asking, TypeOK, Replicas
<1>2. Merge(j.merged, log[v]) \in Log
    <2>1. j.merged \in Log /\ log[v] \in Log
        BY <1>1 DEF TypeOK, Job
    <2> QED BY <2>1, MergeFields
<1>3. \/ job' = [job EXCEPT ![c] = [j EXCEPT !.asked = v, !.merged = Merge(j.merged, log[v])]]
      \/ /\ job' = [job EXCEPT ![c] = [j EXCEPT !.asked = v]]
         /\ "voters answer" \in kept' => v \notin j.yes
    BY DEF Sync, Keep, Broken
<1> HIDE DEF j, v
<1>4. \A l \in Log : LET k == [j EXCEPT !.asked = v, !.merged = l] IN
          /\ k \in Job /\ SameCall(k, j) /\ k.phase = "sync" /\ k.lapsed = j.lapsed
          /\ k.yes = j.yes /\ k.todo = j.todo /\ k.asked = v /\ k.merged = l
    BY <1>1 DEF Job, SameCall
<1>5. LET k == [j EXCEPT !.asked = v] IN
          /\ k \in Job /\ SameCall(k, j) /\ k.phase = "sync" /\ k.lapsed = j.lapsed
          /\ k.yes = j.yes /\ k.todo = j.todo /\ k.asked = v /\ k.merged = j.merged
    BY <1>1 DEF Job, SameCall
<1>6. PICK k : /\ job' = [job EXCEPT ![c] = k]
               /\ \/ k = [j EXCEPT !.asked = v, !.merged = Merge(j.merged, log[v])]
                  \/ /\ k = [j EXCEPT !.asked = v]
                     /\ "voters answer" \in kept' => v \notin j.yes
    BY <1>3
<1>7. job'[c] = k /\ Others(c)
    BY <1>6 DEF TypeOK, Others
<1>8. /\ k \in Job /\ SameCall(k, j) /\ k.phase = "sync" /\ k.lapsed = j.lapsed
      /\ k.yes = j.yes /\ k.todo = j.todo /\ k.asked = v
      /\ \/ k.merged = Merge(j.merged, log[v])
         \/ k.merged = j.merged /\ ("voters answer" \in kept' => v \notin j.yes)
    BY <1>2, <1>4, <1>5, <1>6
<1> QED BY <1>1, <1>6, <1>7, <1>8 DEF j, v

Driving1(k, S) == k.phase = "drive" /\ k.asked = 0 /\ k.yes = {} /\ k.todo = S

(* What the end of the sync does to its call. *)
LEMMA SyncDoneEffect ==
    ASSUME TypeOK, JobInv, NEW c \in Callers, SyncDone(c)
    PROVE  LET j == job[c]  k == job'[c] IN
           /\ job' = [job EXCEPT ![c] = k] /\ Others(c) /\ k \in Job
           /\ j.phase = "sync" /\ j.asked = Members
           /\ \/ k = Idle /\ Entries(j.merged) = {}
              \/ Driving1(k, Entries(j.merged)) /\ SameCall(k, j)
<1> DEFINE j == job[c]  l == [j EXCEPT !.merged = EmptyLog]  k == Drive(l, Entries(j.merged))
<1>1. j \in Job /\ j.phase = "sync" /\ j.asked = Members
    BY DEF TypeOK, SyncDone, AskedAll
<1>2. EmptyLog \in Log /\ Entries(j.merged) \in SUBSET Driven
    BY <1>1, EntriesFields DEF EmptyLog, Log, Job
<1>3. l \in Job /\ SameCall(l, j)
    BY <1>1, <1>2 DEF Job, SameCall
<1>4. job' = [job EXCEPT ![c] = k]
    BY DEF SyncDone
<1>5. job'[c] = k /\ Others(c)
    BY <1>4 DEF TypeOK, Others
<1> HIDE DEF l
<1>6. /\ k \in Job
      /\ \/ k = Idle /\ Entries(j.merged) = {}
         \/ Driving1(k, Entries(j.merged)) /\ SameCall(k, l)
    BY <1>2, <1>3, DriveFields DEF Driving1, SameCall
<1> HIDE DEF k, j
<1> QED BY <1>1, <1>3, <1>4, <1>5, <1>6 DEF SameCall, j

(* What the start of a propose does to its call. *)
LEMMA StartProposeEffect ==
    ASSUME TypeOK, NEW c \in Callers, NEW r \in Candidates, StartPropose(c, r)
    PROVE  LET k == job'[c] IN
           /\ job' = [job EXCEPT ![c] = k] /\ Others(c) /\ k \in Job
           /\ k.phase = "redrive" /\ k.at = r /\ k.calls = "propose" /\ ~k.ready
           /\ k.yes = {} /\ k.todo = {} /\ job[c].phase = "idle" /\ r \in Replicas
<1> DEFINE k == [Idle EXCEPT !.phase = "redrive", !.at = r, !.calls = "propose", !.ready = FALSE]
<1>1. r \in Replicas
    BY BoundsAssumption DEF Replicas
<1>2. k \in Job /\ k.phase = "redrive" /\ k.at = r /\ k.calls = "propose" /\ ~k.ready
    BY <1>1, IdleFields DEF Job, Phases
<1>3. k.yes = {} /\ k.todo = {}
    BY DEF Idle
<1>4. job' = [job EXCEPT ![c] = k] /\ job[c].phase = "idle"
    BY DEF StartPropose
<1>5. job'[c] = k /\ Others(c)
    BY <1>4 DEF TypeOK, Others
<1> HIDE DEF k
<1> QED BY <1>1, <1>2, <1>3, <1>4, <1>5

Uncommitted(r) == [s \in Slots |-> IF s \in committed[r] THEN NoEntry ELSE log[r][s]]

(* What reading the uncommitted entries does to a propose. *)
LEMMA RedriveEffect ==
    ASSUME TypeOK, JobInv, NEW c \in Callers, Redrive(c)
    PROVE  LET j == job[c]  k == job'[c]  r == j.at IN
           /\ job' = [job EXCEPT ![c] = k] /\ Others(c) /\ k \in Job
           /\ j.phase = "redrive" /\ ~j.ready /\ r \in Replicas
           /\ Uncommitted(r) \in Log /\ Driving1(k, Entries(Uncommitted(r)))
           /\ k.at = r /\ k.calls = j.calls /\ ~k.ready /\ k.term = term[r]
<1> DEFINE j == job[c]  r == j.at  l == [j EXCEPT !.term = term[r]]
           k == Drive(l, Entries(Uncommitted(r)))
<1>1. j \in Job /\ j.phase = "redrive" /\ ~j.ready /\ r \in Replicas /\ term[r] \in Terms
    BY DEF TypeOK, Redrive, JobInv, JobOK, Job
<1>2. Uncommitted(r) \in Log
    <2>1. log[r] \in Log
        BY <1>1 DEF TypeOK
    <2> QED BY <2>1 DEF Uncommitted, Log
<1>3. Entries(Uncommitted(r)) \in SUBSET Driven
    BY <1>2, EntriesFields
<1>4. l \in Job /\ l.at = r /\ l.calls = j.calls /\ l.term = term[r] /\ ~l.ready
    BY <1>1 DEF Job
<1>5. job' = [job EXCEPT ![c] = k]
    BY DEF Redrive, Uncommitted
<1>6. job'[c] = k /\ Others(c)
    BY <1>5 DEF TypeOK, Others
<1> HIDE DEF l
<1>7. /\ k \in Job /\ Driving1(k, Entries(Uncommitted(r)))
      /\ k.at = l.at /\ k.calls = l.calls /\ ~k.ready /\ k.term = l.term
    BY <1>3, <1>4, DriveFields DEF Driving1
<1> HIDE DEF k
<1> QED BY <1>1, <1>2, <1>4, <1>5, <1>6, <1>7

(* A slot taken for a new value. *)
Takes(c) == job[c].phase = "drive" /\ nextSlot[job[c].at] \in Slots /\ proposals < MaxProposals
NewEntry(c) == [slot |-> nextSlot[job[c].at], value |-> proposals + 1]

(* What taking a slot does to a propose, when there is one. *)
LEMMA TakeSlotEffect ==
    ASSUME TypeOK, JobInv, NEW c \in Callers, TakeSlot(c)
    PROVE  LET j == job[c]  k == job'[c]  r == j.at IN
           /\ job' = [job EXCEPT ![c] = k] /\ Others(c) /\ k \in Job
           /\ j.phase = "drive" /\ ~j.ready /\ j.todo = {} /\ r \in Replicas
           /\ \/ k = Idle /\ UNCHANGED <<proposals, nextSlot>>
              \/ /\ Takes(c) /\ NewEntry(c) \in Driven /\ Driving1(k, {NewEntry(c)})
                 /\ k.at = r /\ k.calls = j.calls /\ k.ready /\ k.term = term[r]
                 /\ proposals' = proposals + 1
                 /\ nextSlot' = [nextSlot EXCEPT ![r] = @ + 1]
<1> DEFINE j == job[c]  r == j.at  l == [j EXCEPT !.term = term[r], !.ready = TRUE]
           k == Drive(l, {NewEntry(c)})
<1>1. j \in Job /\ j.phase = "drive" /\ ~j.ready /\ j.todo = {} /\ r \in Replicas /\ term[r] \in Terms
    BY DEF TypeOK, TakeSlot, Job
<1>2. CASE Takes(c)
    <2>1. NewEntry(c) \in Driven
        <3>1. proposals \in Nat /\ MaxProposals \in Nat /\ proposals < MaxProposals
            BY <1>2, BoundsAssumption DEF TypeOK, Takes
        <3> QED BY <1>2, <3>1 DEF NewEntry, Takes, Driven, Values
    <2>2. l \in Job /\ l.at = r /\ l.calls = j.calls /\ l.term = term[r] /\ l.ready
        BY <1>1 DEF Job
    <2>3. /\ proposals' = proposals + 1 /\ nextSlot' = [nextSlot EXCEPT ![r] = @ + 1]
          /\ job' = [job EXCEPT ![c] = k]
        BY <1>2 DEF TakeSlot, NewEntry, Takes
    <2>4. job'[c] = k /\ Others(c)
        BY <2>3 DEF TypeOK, Others
    <2> HIDE DEF l
    <2>5. {NewEntry(c)} \in SUBSET Driven /\ {NewEntry(c)} # {}
        BY <2>1
    <2>6. /\ k \in Job /\ Driving1(k, {NewEntry(c)})
          /\ k.at = l.at /\ k.calls = l.calls /\ k.ready = l.ready /\ k.term = l.term
        BY <2>2, <2>5, DriveFields DEF Driving1
    <2> HIDE DEF k
    <2> QED BY <1>1, <1>2, <2>1, <2>2, <2>3, <2>4, <2>6
<1>3. CASE ~Takes(c)
    <2>1. job' = [job EXCEPT ![c] = Idle] /\ UNCHANGED <<proposals, nextSlot>>
        BY <1>1, <1>3 DEF TakeSlot, Takes
    <2> QED BY <1>1, <2>1, EndedEffect
<1> QED BY <1>2, <1>3

(* What an accept, or a refused or lost one, does to its call. *)
LEMMA AcceptEffect ==
    ASSUME TypeOK, NEW c \in Callers, AskAccept(c) \/ NoAccept(c)
    PROVE  LET v == Next1(c) IN
           /\ job' = [job EXCEPT ![c] = job'[c]] /\ Others(c)
           /\ (AskAccept(c) /\ AskedYes(c)) \/ AskedNo(c)
           /\ job[c].phase = "drive" /\ job[c].todo # {} /\ v \in Replicas
           /\ First(job[c].todo) \in job[c].todo
           /\ First(job[c].todo) \in Driven
<1>1. Next1(c) \in Replicas /\ job[c].phase = "drive" /\ job[c].todo # {}
    <2>1. Driving(c)
        BY DEF AskAccept, NoAccept
    <2> QED BY <2>1, NextAsked DEF Asking, Driving
<1>2. \E ok \in BOOLEAN : /\ job' = [job EXCEPT ![c] = Asked(job[c], Next1(c), ok)]
                          /\ ok => AskAccept(c)
    BY DEF AskAccept, NoAccept
<1>3. \/ job' = [job EXCEPT ![c] = Asked(job[c], Next1(c), TRUE)] /\ AskAccept(c)
      \/ job' = [job EXCEPT ![c] = Asked(job[c], Next1(c), FALSE)]
    BY <1>2
<1>4. job[c].todo \in SUBSET Driven
    BY DEF TypeOK, Job
<1> QED BY <1>1, <1>3, <1>4, FirstIsLeast DEF Others, AskedNo, AskedYes, TypeOK

(* What the lack of a quorum does to a call. *)
LEMMA NotChosenEffect ==
    ASSUME TypeOK, NEW c \in Callers, NotChosen(c)
    PROVE  LET j == job[c]  k == job'[c] IN
           /\ job' = [job EXCEPT ![c] = k] /\ Others(c) /\ k \in Job
           /\ j.phase = "drive" /\ j.todo # {} /\ j.asked = Members
           /\ k = DriveRest(j)
           /\ k = Idle \/ (Driving1(k, j.todo \ {First(j.todo)}) /\ SameCall(k, j))
<1> DEFINE j == job[c]
<1>1. j \in Job /\ j.phase = "drive" /\ j.todo # {} /\ j.asked = Members
    BY DEF TypeOK, NotChosen, AskedAll
<1>2. job' = [job EXCEPT ![c] = DriveRest(j)]
    BY DEF NotChosen
<1>3. job'[c] = DriveRest(j) /\ Others(c)
    BY <1>2 DEF TypeOK, Others
<1> QED BY <1>1, <1>2, <1>3, DriveRestFields DEF Driving1

(* What a quorum of accepts does to a call. *)
LEMMA ChosenEffect ==
    ASSUME TypeOK, NEW c \in Callers, Chosen(c)
    PROVE  LET j == job[c]  k == job'[c] IN
           /\ job' = [job EXCEPT ![c] = k] /\ Others(c) /\ k \in Job
           /\ j.phase = "drive" /\ j.todo # {} /\ j.asked = Members /\ IsQuorum(j.yes)
           /\ First(j.todo) \in j.todo /\ First(j.todo) \in Driven
           /\ k.phase = "commit" /\ k.asked = 0 /\ k.yes = {} /\ k.todo = j.todo /\ SameCall(k, j)
<1> DEFINE j == job[c]  k == Phase(j, "commit")
<1>1. /\ j \in Job /\ j.phase = "drive" /\ j.todo # {} /\ j.asked = Members /\ IsQuorum(j.yes)
      /\ j.todo \in SUBSET Driven
    BY DEF TypeOK, Chosen, AskedAll, Job
<1>2. job' = [job EXCEPT ![c] = k]
    BY DEF Chosen
<1>3. job'[c] = k /\ Others(c)
    BY <1>2 DEF TypeOK, Others
<1>4. /\ k \in Job /\ k.phase = "commit" /\ k.asked = 0 /\ k.yes = {} /\ k.todo = j.todo
      /\ SameCall(k, j)
    <2>1. "commit" \in Phases
        BY DEF Phases
    <2> QED BY <1>1, <2>1, PhaseFields DEF SameCall
<1> HIDE DEF k
<1> QED BY <1>1, <1>2, <1>3, <1>4, FirstIsLeast

(* What a commit notification, delivered or not, does to its call. *)
LEMMA NotifyEffect ==
    ASSUME TypeOK, JobInv, NEW c \in Callers, Notify(c) \/ NotifyLost(c)
    PROVE  LET j == job[c]  k == job'[c] IN
           /\ job' = [job EXCEPT ![c] = k] /\ Others(c) /\ k \in Job
           /\ j.phase = "commit" /\ j.todo # {} /\ Next1(c) \in Replicas
           /\ First(j.todo) \in j.todo /\ First(j.todo) \in Driven
           /\ \/ k = DriveRest(j) /\ k = Idle
              \/ k = DriveRest(j) /\ Driving1(k, j.todo \ {First(j.todo)}) /\ SameCall(k, j)
              \/ k.phase = "commit" /\ k.todo = j.todo /\ SameCall(k, j) /\ AskedNo(c)
<1> DEFINE j == job[c]
<1>1. /\ j \in Job /\ j.phase = "commit" /\ j.todo # {} /\ Next1(c) \in Replicas
      /\ j.todo \in SUBSET Driven
    <2>1. Asking(c, "commit")
        BY DEF Notify, NotifyLost
    <2>2. j.phase = "commit" /\ Next1(c) \in Replicas
        BY <2>1, NextAsked DEF Asking
    <2> QED BY <2>2 DEF TypeOK, JobInv, JobOK, Job
<1>2. job' = [job EXCEPT ![c] = Notified(j, Next1(c))]
    BY DEF Notify, NotifyLost
<1>3. job'[c] = Notified(j, Next1(c)) /\ Others(c)
    BY <1>2 DEF TypeOK, Others
<1>4. CASE Next1(c) = Members
    <2>1. job'[c] = DriveRest(j)
        BY <1>3, <1>4 DEF Notified
    <2> QED BY <1>1, <1>2, <1>3, <2>1, DriveRestFields, FirstIsLeast DEF Driving1
<1>5. CASE Next1(c) # Members
    <2>1. AskedNo(c)
        BY <1>1, <1>3, <1>5 DEF Notified, AskedNo
    <2>2. job'[c] \in Job /\ GoesOn(job'[c], j)
        BY <2>1, AskedEffect
    <2> QED BY <1>1, <1>2, <1>3, <2>1, <2>2, FirstIsLeast DEF GoesOn
<1> QED BY <1>4, <1>5

-----------------------------------------------------------------------------
(* Types *)

(* The numbers are natural numbers. *)
LEMMA TypeFacts ==
    ASSUME TypeOK
    PROVE  /\ Members \in Nat /\ Members > 0 /\ MaxTerm \in Nat
           /\ \A t \in Terms : t \in Nat
           /\ \A q \in Replicas : q \in Nat /\ q > 0 /\ q <= Members /\ term[q] \in Nat /\ nextSlot[q] \in Nat
           /\ \A s \in Slots : s \in Nat
           /\ \A c \in Callers : job[c].term \in Nat /\ job[c].asked \in Nat /\ job[c].at \in Replicas
           /\ \A q \in Replicas, s \in Slots : log[q][s].term \in Nat /\ log[q][s].term \in Terms
<1>1. Members \in Nat /\ Members > 0 /\ MaxTerm \in Nat /\ MaxSlot \in Nat
    BY BoundsAssumption
<1>2. /\ \A t \in Terms : t \in Nat
      /\ \A q \in Replicas : q \in Nat /\ q > 0 /\ q <= Members
      /\ \A s \in Slots : s \in Nat
    BY <1>1 DEF Terms, Replicas, Slots
<1>3. \A q \in Replicas : term[q] \in Nat /\ nextSlot[q] \in Nat
    BY <1>1, <1>2 DEF TypeOK
<1>4. \A c \in Callers : job[c].term \in Nat /\ job[c].asked \in Nat /\ job[c].at \in Replicas
    BY <1>1, <1>2 DEF TypeOK, Job
<1>5. \A l \in Log, s \in Slots : l[s].term \in Terms
    BY <1>1 DEF Log, Entry, NoEntry, Terms
<1> QED BY <1>1, <1>2, <1>3, <1>4, <1>5 DEF TypeOK

(* The types, and the shape of the calls, hold initially. *)
LEMMA InitInv1 == Init => TypeOK /\ JobInv
<1> SUFFICES ASSUME Init PROVE TypeOK /\ JobInv
    OBVIOUS
<1>1. EmptyLog \in Log /\ <<>> \in Seq(Values) /\ 0 \in Terms /\ 0 \in 0..Members /\ 0 \in 0..MaxProposals
      /\ 1 \in 1..MaxSlot + 1
    BY BoundsAssumption DEF EmptyLog, Log, Terms
<1>2. TypeOK
    BY <1>1, IdleFields DEF Init, TypeOK
<1>3. JobInv
    BY IdleFields DEF Init, JobInv, JobOK
<1> QED BY <1>2, <1>3

(* The requests an acceptor may be sent. *)
Requests == [to : Replicas, term : Terms, slot : Slots, value : Values]

VoteRequests == [to : Replicas, candidate : Replicas, term : Terms]
Commits == [to : Replicas, slot : Slots, term : Terms]

(* The conditions that were broken are not kept again. *)
LEMMA KeptShrinks ==
    ASSUME Next
    PROVE  kept' \in SUBSET kept
<1> USE DEF Keep, history
<1>1. ASSUME NEW c \in Callers, NEW r \in Candidates, RequestLeadership(c, r) \/ StartPropose(c, r)
      PROVE  kept' \in SUBSET kept
    BY <1>1 DEF RequestLeadership, StartPropose
<1>2. ASSUME NEW c \in Callers, AskVote(c) \/ Sync(c) PROVE kept' \in SUBSET kept
    BY <1>2 DEF AskVote, Vote, Sync
<1>3. ASSUME NEW c \in Callers, NoVote(c) \/ Win(c) \/ Lose(c) \/ SyncDone(c) \/ Redrive(c) \/ TakeSlot(c)
      PROVE  kept' \in SUBSET kept
    BY <1>3 DEF NoVote, Win, Lose, SyncDone, Redrive, TakeSlot
<1>4. ASSUME NEW c \in Callers, AskAccept(c) PROVE kept' \in SUBSET kept
    BY <1>4 DEF AskAccept, Accept
<1>5. ASSUME NEW c \in Callers, Notify(c) PROVE kept' \in SUBSET kept
    BY <1>5 DEF Notify, Commit
<1>6. ASSUME NEW c \in Callers, NoAccept(c) \/ Chosen(c) \/ NotChosen(c) \/ NotifyLost(c)
      PROVE  kept' \in SUBSET kept
    BY <1>6 DEF NoAccept, Chosen, NotChosen, NotifyLost
<1>7. ASSUME NEW r \in Replicas, LeaseEnds(r) \/ VoteEnds(r) PROVE kept' \in SUBSET kept
    BY <1>7 DEF LeaseEnds, VoteEnds
<1>8. ASSUME NEW m \in lateVotes, LateVote(m) PROVE kept' \in SUBSET kept
    BY <1>8 DEF LateVote, Vote
<1>9. ASSUME NEW m \in late, LateAccept(m) PROVE kept' \in SUBSET kept
    BY <1>9 DEF LateAccept, Accept
<1>10. ASSUME NEW m \in lateCommits, LateCommit(m) PROVE kept' \in SUBSET kept
    BY <1>10 DEF LateCommit, Commit
<1> QED BY <1>1, <1>2, <1>3, <1>4, <1>5, <1>6, <1>7, <1>8, <1>9, <1>10 DEF Next

(* What a granted vote does to its voter. *)
LEMMA VotedEffect ==
    ASSUME TypeOK, NEW m \in VoteRequests, Vote(m.to, m.candidate, m.term)
    PROVE  /\ m.term >= term[m.to] /\ vote[m.to] \in {0, m.candidate}
           /\ term' = [term EXCEPT ![m.to] = m.term] /\ term' \in [Replicas -> Terms]
           /\ term'[m.to] = m.term /\ vote'[m.to] = m.candidate
           /\ vote' \in [Replicas -> 0..Members]
           /\ \A p \in Replicas \ {m.to} : vote'[p] = vote[p]
           /\ role' = IF m.to # m.candidate THEN [role EXCEPT ![m.to] = "follower"] ELSE role
           /\ role' \in [Replicas -> {"follower", "candidate", "leader"}]
<1>1. m.to \in Replicas /\ m.candidate \in 0..Members /\ m.term \in Terms
    BY DEF VoteRequests, Replicas
<1> QED BY <1>1 DEF Vote, Grants, TypeOK

(* What an accepted request does to its replica. *)
LEMMA AcceptedEffect ==
    ASSUME TypeOK, NEW m \in Requests, Accept(m)
    PROVE  /\ m.term >= term[m.to]
           /\ term' = [term EXCEPT ![m.to] = m.term] /\ term' \in [Replicas -> Terms]
           /\ log' \in [Replicas -> Log] /\ nextSlot' \in [Replicas -> 1..MaxSlot + 1]
           /\ \A q \in Replicas, s \in Slots : ~(q = m.to /\ s = m.slot) => log'[q][s] = log[q][s]
           /\ log'[m.to][m.slot] = [term |-> m.term, value |-> m.value]
           /\ \A q \in Replicas : nextSlot'[q] >= nextSlot[q]
           /\ nextSlot'[m.to] > m.slot
<1> DEFINE e == [term |-> m.term, value |-> m.value]
<1>1. m.to \in Replicas /\ m.term \in Terms /\ m.slot \in Slots /\ e \in Entry
    BY DEF Requests, Entry
<1>2. log' \in [Replicas -> Log]
    BY <1>1 DEF Accept, TypeOK, Log
<1>3. nextSlot' = [nextSlot EXCEPT ![m.to] = Larger(@, m.slot + 1)]
    BY DEF Accept
<1>4. /\ m.slot \in Nat /\ m.slot + 1 \in 1..MaxSlot + 1
      /\ \A q \in Replicas : nextSlot[q] \in Nat /\ nextSlot[q] \in 1..MaxSlot + 1
    BY <1>1, BoundsAssumption DEF TypeOK, Slots
<1>5. /\ Larger(nextSlot[m.to], m.slot + 1) \in 1..MaxSlot + 1
      /\ Larger(nextSlot[m.to], m.slot + 1) >= nextSlot[m.to]
      /\ Larger(nextSlot[m.to], m.slot + 1) > m.slot
    BY <1>1, <1>4 DEF Larger
<1>6. /\ nextSlot' \in [Replicas -> 1..MaxSlot + 1] /\ nextSlot'[m.to] > m.slot
      /\ \A q \in Replicas : nextSlot'[q] >= nextSlot[q]
    BY <1>1, <1>3, <1>4, <1>5 DEF TypeOK
<1>7. m.term >= term[m.to] /\ term' = [term EXCEPT ![m.to] = m.term] /\ term' \in [Replicas -> Terms]
    BY <1>1 DEF Accept, TypeOK
<1>8. log'[m.to][m.slot] = e
    BY <1>1 DEF Accept, TypeOK, Log
<1>9. \A q \in Replicas, s \in Slots : ~(q = m.to /\ s = m.slot) => log'[q][s] = log[q][s]
    BY <1>1 DEF Accept, TypeOK, Log
<1> QED BY <1>2, <1>6, <1>7, <1>8, <1>9

(* The request of a call names its term and the lowest slot it has left. *)
LEMMA RequestFields ==
    ASSUME TypeOK, NEW c \in Callers, Driving(c)
    PROVE  LET m == Request(c) IN
           /\ m \in Requests /\ m.to = Next1(c) /\ m.term = job[c].term
           /\ m.slot = First(job[c].todo).slot /\ m.value = First(job[c].todo).value
<1>1. Next1(c) \in Replicas /\ job[c].todo # {} /\ job[c].todo \in SUBSET Driven /\ job[c].term \in Terms
    BY NextAsked DEF Driving, Asking, TypeOK, Job
<1>2. First(job[c].todo) \in Driven
    BY <1>1, FirstIsLeast
<1> QED BY <1>1, <1>2 DEF Request, Requests, Driven

(* The slots _on_commit finds ready are the first ones. *)
LEMMA ReadyIsPrefix ==
    ASSUME TypeOK, NEW r \in Replicas, NEW C \in SUBSET Slots
    PROVE  \E m \in 0..MaxSlot : /\ Ready(r, C) = 1..m
                                 /\ \A s \in 1..m : s \in Slots /\ s \in C /\ log[r][s] # NoEntry
<1>1. MaxSlot \in Nat
    BY BoundsAssumption
<1>2. CASE Ready(r, C) = {}
    <2>1. Ready(r, C) = 1..0 /\ 0 \in 0..MaxSlot
        BY <1>1, <1>2
    <2> QED BY <2>1
<1>3. CASE Ready(r, C) # {}
    <2>1. Ready(r, C) \in SUBSET (0..MaxSlot)
        BY <1>1 DEF Ready, Slots
    <2>2. PICK m : m = Max(Ready(r, C))
        OBVIOUS
    <2>3. m \in Ready(r, C) /\ \A y \in Ready(r, C) : y <= m
        BY <1>1, <1>3, <2>1, <2>2, MaxIsGreatest
    <2>4. m \in Slots /\ \A s \in 1..m : s \in C /\ log[r][s] # NoEntry
        BY <2>3 DEF Ready
    <2>5. \A i \in 1..m : i \in Slots /\ \A s \in 1..i : s \in 1..m
        BY <1>1, <2>4 DEF Slots
    <2>6. \A i \in 1..m : i \in Ready(r, C)
        BY <2>4, <2>5 DEF Ready
    <2>7. \A y \in Ready(r, C) : y \in 1..m
        BY <1>1, <2>1, <2>3, <2>4 DEF Slots, Ready
    <2>8. m \in 0..MaxSlot
        BY <1>1, <2>4 DEF Slots
    <2>9. Ready(r, C) = 1..m
        BY <2>6, <2>7
    <2> QED BY <2>4, <2>5, <2>8, <2>9
<1> QED BY <1>2, <1>3

(* What is applied next: the next entries of the log, while they are committed. *)
LEMMA AppliesNext ==
    ASSUME TypeOK, NEW r \in Replicas, NEW C \in SUBSET Slots
    PROVE  \E n \in Nat :
           /\ ApplyReady(r, C) = [applied EXCEPT ![r] =
                  @ \o [i \in 1..n |-> log[r][Len(applied[r]) + i].value]]
           /\ \A s \in Len(applied[r]) + 1..Len(applied[r]) + n :
                  s \in Slots /\ s \in C /\ log[r][s] # NoEntry
<1>1. PICK m \in 0..MaxSlot : /\ Ready(r, C) = 1..m
                              /\ \A s \in 1..m : s \in Slots /\ s \in C /\ log[r][s] # NoEntry
    BY ReadyIsPrefix
<1>2. PICK k : k = Len(applied[r])
    OBVIOUS
<1>3. k \in Nat /\ MaxSlot \in Nat /\ m \in Nat
    BY <1>1, <1>2, BoundsAssumption DEF TypeOK
<1>4. {x \in Ready(r, C) : x > k} = k + 1..m
    BY <1>1, <1>3
<1>5. Cardinality(k + 1..m) = IF k + 1 > m THEN 0 ELSE m - (k + 1) + 1
    BY <1>3, FS_Interval
<1>6. PICK n \in Nat : n = Cardinality(k + 1..m) /\ \A s \in k + 1..k + n : s \in 1..m
    <2>1. CASE k + 1 > m
        BY <1>3, <1>5, <2>1
    <2>2. CASE ~(k + 1 > m)
        BY <1>3, <1>5, <2>2
    <2> QED BY <2>1, <2>2
<1>7. n = Cardinality({x \in Ready(r, C) : x > k})
    BY <1>4, <1>6
<1>8. ApplyReady(r, C) = [applied EXCEPT ![r] =
          @ \o [i \in 1..n |-> log[r][Len(applied[r]) + i].value]]
    BY <1>2, <1>7 DEF ApplyReady
<1> QED BY <1>1, <1>2, <1>6, <1>8

(* What is applied are values. *)
LEMMA ApplyReadyType ==
    ASSUME TypeOK, NEW r \in Replicas, NEW C \in SUBSET Slots
    PROVE  ApplyReady(r, C) \in [Replicas -> Seq(Values)]
<1>1. PICK n \in Nat :
      /\ ApplyReady(r, C) = [applied EXCEPT ![r] =
             @ \o [i \in 1..n |-> log[r][Len(applied[r]) + i].value]]
      /\ \A s \in Len(applied[r]) + 1..Len(applied[r]) + n :
             s \in Slots /\ s \in C /\ log[r][s] # NoEntry
    BY AppliesNext
<1>2. applied[r] \in Seq(Values) /\ Len(applied[r]) \in Nat
    BY DEF TypeOK
<1>3. ASSUME NEW i \in 1..n PROVE log[r][Len(applied[r]) + i].value \in Values
    <2>1. Len(applied[r]) + i \in Len(applied[r]) + 1..Len(applied[r]) + n
        BY <1>2
    <2>2. PICK s \in Slots : s = Len(applied[r]) + i /\ log[r][s] # NoEntry
        BY <1>1, <2>1
    <2>3. log[r][s] \in Entry
        BY <2>2 DEF TypeOK, Log
    <2> QED BY <2>2, <2>3 DEF Entry
<1>4. [i \in 1..n |-> log[r][Len(applied[r]) + i].value] \in Seq(Values)
    BY <1>3
<1>5. applied[r] \o [i \in 1..n |-> log[r][Len(applied[r]) + i].value] \in Seq(Values)
    BY <1>2, <1>4
<1> QED BY <1>1, <1>5 DEF TypeOK

(* What a commit notification does to its replica, if anything. *)
LEMMA CommitEffect ==
    ASSUME TypeOK, NEW v \in Replicas, NEW s \in Slots, NEW t, Commit(v, s, t)
    PROVE  /\ committed' \in [Replicas -> SUBSET Slots] /\ applied' \in [Replicas -> Seq(Values)]
           /\ committed[v] \cup {s} \in SUBSET Slots
           /\ \/ UNCHANGED <<committed, applied>>
              \/ /\ "commits follow" \in kept' => ~(log[v][s].term < t)
                 /\ committed' = [committed EXCEPT ![v] = @ \cup {s}]
                 /\ applied' = ApplyReady(v, committed[v] \cup {s})
<1>1. CASE log[v][s] = NoEntry
    BY <1>1 DEF Commit, TypeOK, applying
<1>2. CASE log[v][s] # NoEntry
    <2>1. /\ "commits follow" \in kept' => ~(log[v][s].term < t)
          /\ committed' = [committed EXCEPT ![v] = @ \cup {s}]
          /\ applied' = ApplyReady(v, committed'[v])
        BY <1>2 DEF Commit, Keep, Broken
    <2>2. committed[v] \cup {s} \in SUBSET Slots /\ committed'[v] = committed[v] \cup {s}
        BY <2>1 DEF TypeOK
    <2>3. applied' = ApplyReady(v, committed[v] \cup {s})
        BY <2>1, <2>2
    <2>4. applied' \in [Replicas -> Seq(Values)]
        BY <2>2, <2>3, ApplyReadyType
    <2>5. committed' \in [Replicas -> SUBSET Slots]
        BY <2>1, <2>2 DEF TypeOK
    <2> QED BY <2>1, <2>2, <2>3, <2>4, <2>5
<1> QED BY <1>1, <1>2

(* What the end of a notification commits. *)
Committing(v, s, t) == v \in Replicas /\ s \in Slots /\ Commit(v, s, t)
LEMMA CommittingEffect ==
    ASSUME TypeOK, JobInv
    PROVE  /\ \A c \in Callers : Notify(c) =>
                 Committing(Next1(c), First(job[c].todo).slot, job[c].term)
           /\ \A m \in lateCommits : LateCommit(m) => Committing(m.to, m.slot, m.term)
<1>1. ASSUME NEW c \in Callers, Notify(c)
      PROVE  Committing(Next1(c), First(job[c].todo).slot, job[c].term)
    <2>1. Next1(c) \in Replicas /\ First(job[c].todo).slot \in Slots
        BY <1>1, NotifyEffect DEF Driven
    <2> QED BY <1>1, <2>1 DEF Notify, Committing
<1>2. ASSUME NEW m \in lateCommits, LateCommit(m) PROVE Committing(m.to, m.slot, m.term)
    BY <1>2 DEF LateCommit, Committing, TypeOK
<1> QED BY <1>1, <1>2

(* After the sync the next slot is past every slot it found. *)
LEMMA NextAfterSync ==
    ASSUME TypeOK, NEW c \in Callers, SyncDone(c)
    PROVE  LET j == job[c] IN
           /\ nextSlot' \in [Replicas -> 1..MaxSlot + 1]
           /\ \A q \in Replicas : nextSlot'[q] >= nextSlot[q] /\ (q # j.at => nextSlot'[q] = nextSlot[q])
           /\ \A e \in Entries(j.merged) : nextSlot'[j.at] > e.slot
<1> DEFINE j == job[c]  r == j.at  S == {nextSlot[r]} \cup {e.slot + 1 : e \in Entries(j.merged)}
<1>1. j.merged \in Log /\ r \in Replicas /\ nextSlot[r] \in 1..MaxSlot + 1 /\ MaxSlot \in Nat
    BY BoundsAssumption DEF TypeOK, Job
<1>2. \A e \in Entries(j.merged) : e.slot \in 1..MaxSlot
    BY <1>1, EntriesFields DEF Driven, Slots
<1>3. S \in SUBSET (1..MaxSlot + 1) /\ S \in SUBSET (0..MaxSlot + 1) /\ S # {} /\ nextSlot[r] \in S
      /\ \A e \in Entries(j.merged) : e.slot + 1 \in S
    BY <1>1, <1>2
<1>4. nextSlot' = [nextSlot EXCEPT ![r] = Max(S)]
    BY DEF SyncDone
<1> HIDE DEF S
<1>5. MaxSlot + 1 \in Nat
    BY <1>1
<1>6. Max(S) \in S /\ \A y \in S : y <= Max(S)
    BY <1>3, <1>5, MaxIsGreatest
<1>7. PICK n : n = Max(S)
    OBVIOUS
<1>8. n \in 1..MaxSlot + 1 /\ n >= nextSlot[r] /\ \A e \in Entries(j.merged) : n >= e.slot + 1
    BY <1>3, <1>6, <1>7
<1>9. nextSlot' = [nextSlot EXCEPT ![r] = n]
    BY <1>4, <1>7
<1> HIDE DEF j, r
<1>10. nextSlot' \in [Replicas -> 1..MaxSlot + 1] /\ nextSlot'[r] = n
       /\ \A q \in Replicas : q # r => nextSlot'[q] = nextSlot[q]
    BY <1>1, <1>8, <1>9 DEF TypeOK
<1>11. \A q \in Replicas : nextSlot[q] \in Nat
    BY <1>1 DEF TypeOK
<1>12. \A q \in Replicas : nextSlot'[q] >= nextSlot[q]
    BY <1>8, <1>10, <1>11
<1>13. \A e \in Entries(j.merged) : n > e.slot
    BY <1>2, <1>8, <1>1 DEF j, r
<1> QED BY <1>10, <1>12, <1>13 DEF j, r

(* Every step keeps the types. *)
LEMMA TypeStep ==
    ASSUME TypeOK, JobInv, Next
    PROVE  TypeOK'
<1> USE DEF electing, logging, applying, lates, history
<1>kept. kept' \in SUBSET Conditions
    BY KeptShrinks DEF TypeOK
<1>waiting. ASSUME NEW S, NEW requests \in SUBSET S, NEW m \in S PROVE Waiting(requests, m) \in SUBSET S
    BY DEF Waiting
<1>jobs. ASSUME NEW c \in Callers, NEW k \in Job, job' = [job EXCEPT ![c] = k]
         PROVE  job' \in [Callers -> Job]
    BY <1>jobs DEF TypeOK
<1>1. ASSUME NEW c \in Callers, NEW r \in Candidates, RequestLeadership(c, r) PROVE TypeOK'
    <2>1. r \in Replicas /\ term[r] + 1 \in Terms /\ job' \in [Callers -> Job]
        BY <1>1, <1>jobs, RequestLeadershipEffect
    <2>2. term' = [term EXCEPT ![r] = term[r] + 1] /\ used' = used \cup {term[r] + 1}
        BY <1>1, <2>1 DEF RequestLeadership, TypeOK
    <2> QED BY <1>1, <1>kept, <2>1, <2>2 DEF RequestLeadership, TypeOK
<1>2. ASSUME NEW c \in Callers, NEW r \in Candidates, StartPropose(c, r) PROVE TypeOK'
    <2>1. job' \in [Callers -> Job]
        BY <1>2, <1>jobs, StartProposeEffect
    <2> QED BY <1>2, <1>kept, <2>1 DEF StartPropose, TypeOK
<1>3. ASSUME NEW c \in Callers, AskVote(c) \/ NoVote(c) PROVE job' \in [Callers -> Job]
    BY <1>3, <1>jobs, VoteEffect, AskedEffect
<1>4. ASSUME NEW c \in Callers, AskVote(c) PROVE TypeOK'
    <2>1. job' \in [Callers -> Job]
        BY <1>3, <1>4
    <2> DEFINE m == [to |-> Next1(c), candidate |-> job[c].at, term |-> job[c].term]
    <2>2. Next1(c) \in Replicas
        BY <1>4, VoteEffect DEF AskedYes, AskedNo
    <2>3. m \in VoteRequests
        BY <2>2 DEF TypeOK, Job, VoteRequests
    <2>4. Vote(m.to, m.candidate, m.term)
        BY <1>4 DEF AskVote
    <2>5. UNCHANGED <<backers, logging, applying, lates, used, proposals, chosen>>
        BY <1>4 DEF AskVote
    <2> HIDE DEF m
    <2>6. /\ term' \in [Replicas -> Terms] /\ vote' \in [Replicas -> 0..Members]
          /\ role' \in [Replicas -> {"follower", "candidate", "leader"}]
        BY <2>3, <2>4, VotedEffect
    <2> QED BY <1>kept, <2>1, <2>5, <2>6 DEF TypeOK
<1>5. ASSUME NEW c \in Callers, NoVote(c) PROVE TypeOK'
    <2>1. job' \in [Callers -> Job]
        BY <1>3, <1>5
    <2>2. Next1(c) \in Replicas /\ job[c].at \in Replicas /\ job[c].term \in Terms
        BY <1>5, VoteEffect DEF AskedYes, AskedNo, TypeOK, Job
    <2> DEFINE m == [to |-> Next1(c), candidate |-> job[c].at, term |-> job[c].term]
    <2>3. m \in VoteRequests /\ lateVotes \in SUBSET VoteRequests
        BY <2>2 DEF VoteRequests, TypeOK
    <2>w. lateVotes' = lateVotes \/ lateVotes' = Waiting(lateVotes, m)
        BY <1>5 DEF NoVote
    <2> HIDE DEF m
    <2>4. lateVotes' \in SUBSET VoteRequests
        BY <1>waiting, <2>3, <2>w
    <2>5. UNCHANGED <<role, term, electing, logging, applying, late, lateCommits, history>>
        BY <1>5 DEF NoVote
    <2> QED BY <2>1, <2>4, <2>5 DEF TypeOK, VoteRequests
<1>6. ASSUME NEW c \in Callers, Win(c) PROVE TypeOK'
    <2>1. job' \in [Callers -> Job]
        BY <1>6, <1>jobs, WinEffect
    <2>2. job[c].at \in Replicas /\ job[c].yes \in SUBSET Replicas
        BY DEF TypeOK, Job
    <2> QED BY <1>6, <2>1, <2>2 DEF Win, TypeOK
<1>7. ASSUME NEW c \in Callers, Lose(c) PROVE TypeOK'
    <2>1. job' \in [Callers -> Job]
        BY <1>7, IdleFields, <1>jobs DEF Lose
    <2> QED BY <1>7, <2>1 DEF Lose, TypeOK
<1>8. ASSUME NEW c \in Callers, Sync(c) PROVE TypeOK'
    <2>1. job' \in [Callers -> Job]
        BY <1>8, <1>jobs, SyncEffect
    <2> QED BY <1>8, <1>kept, <2>1 DEF Sync, TypeOK
<1>9. ASSUME NEW c \in Callers, SyncDone(c) PROVE TypeOK'
    <2>1. job' \in [Callers -> Job]
        BY <1>9, <1>jobs, SyncDoneEffect
    <2>2. nextSlot' \in [Replicas -> 1..MaxSlot + 1]
        BY <1>9, NextAfterSync
    <2> QED BY <1>9, <2>1, <2>2 DEF SyncDone, TypeOK
<1>10. ASSUME NEW c \in Callers, Redrive(c) PROVE TypeOK'
    <2>1. job' \in [Callers -> Job]
        BY <1>10, <1>jobs, RedriveEffect
    <2> QED BY <1>10, <2>1 DEF Redrive, TypeOK
<1>11. ASSUME NEW c \in Callers, TakeSlot(c) PROVE TypeOK'
    <2>1. job' \in [Callers -> Job]
        <3>1. job' = [job EXCEPT ![c] = job'[c]] /\ job'[c] \in Job
            BY <1>11, TakeSlotEffect, Zenon
        <3> QED BY <3>1, <1>jobs
    <2>2. UNCHANGED <<role, term, electing, log, applying, lates, used, chosen, kept>>
        BY <1>11 DEF TakeSlot
    <2>3. CASE UNCHANGED <<proposals, nextSlot>>
        BY <2>1, <2>2, <2>3 DEF TypeOK
    <2>4. CASE ~UNCHANGED <<proposals, nextSlot>>
        <3> DEFINE r == job[c].at
        <3>1. /\ r \in Replicas /\ Takes(c) /\ proposals' = proposals + 1
              /\ nextSlot' = [nextSlot EXCEPT ![r] = @ + 1]
            BY <1>11, <2>4, TakeSlotEffect
        <3>2. nextSlot[r] \in 1..MaxSlot /\ proposals < MaxProposals /\ MaxSlot \in Nat
            BY <3>1, BoundsAssumption DEF Takes, Slots
        <3>3. proposals' \in 0..MaxProposals
            BY <3>1, <3>2, BoundsAssumption DEF TypeOK
        <3>4. nextSlot[r] + 1 \in 1..MaxSlot + 1
            BY <3>2
        <3>5. nextSlot' \in [Replicas -> 1..MaxSlot + 1]
            BY <3>1, <3>4 DEF TypeOK
        <3> QED BY <2>1, <2>2, <3>3, <3>5 DEF TypeOK
    <2> QED BY <2>3, <2>4
<1>12. ASSUME NEW c \in Callers, AskAccept(c) \/ NoAccept(c) PROVE job' \in [Callers -> Job]
    BY <1>12, <1>jobs, AcceptEffect, AskedEffect
<1>13. ASSUME NEW c \in Callers, AskAccept(c) PROVE TypeOK'
    <2>1. job' \in [Callers -> Job]
        BY <1>12, <1>13
    <2>2. Request(c) \in Requests /\ Accept(Request(c))
        BY <1>13, RequestFields DEF AskAccept
    <2>3. /\ term' \in [Replicas -> Terms] /\ log' \in [Replicas -> Log]
          /\ nextSlot' \in [Replicas -> 1..MaxSlot + 1]
        BY <2>2, AcceptedEffect
    <2>4. UNCHANGED <<role, electing, applying, lates, used, proposals, chosen>>
        BY <1>13 DEF AskAccept
    <2> QED BY <1>kept, <2>1, <2>3, <2>4 DEF TypeOK
<1>14. ASSUME NEW c \in Callers, NoAccept(c) PROVE TypeOK'
    <2>1. job' \in [Callers -> Job]
        BY <1>12, <1>14
    <2>2. Request(c) \in Requests
        BY <1>14, RequestFields DEF NoAccept
    <2>3. UNCHANGED <<role, term, electing, logging, applying, lateVotes, lateCommits, history>>
        BY <1>14 DEF NoAccept
    <2>w. late \in SUBSET Requests /\ (late' = late \/ late' = Waiting(late, Request(c)))
        BY <1>14 DEF NoAccept, TypeOK, Requests
    <2>4. late' \in SUBSET Requests
        BY <1>waiting, <2>2, <2>w
    <2> QED BY <2>1, <2>3, <2>4 DEF TypeOK, Requests
<1>15. ASSUME NEW c \in Callers, Chosen(c) PROVE TypeOK'
    <2>1. job' \in [Callers -> Job]
        BY <1>15, <1>jobs, ChosenEffect
    <2>2. First(job[c].todo) \in Driven
        BY <1>15, ChosenEffect
    <2> QED BY <1>15, <2>1, <2>2 DEF Chosen, TypeOK, Driven
<1>16. ASSUME NEW c \in Callers, NotChosen(c) PROVE TypeOK'
    <2>1. job' \in [Callers -> Job]
        BY <1>16, <1>jobs, NotChosenEffect
    <2> QED BY <1>16, <2>1 DEF NotChosen, TypeOK
<1>17. ASSUME NEW c \in Callers, Notify(c) \/ NotifyLost(c) PROVE job' \in [Callers -> Job]
    BY <1>17, <1>jobs, NotifyEffect
<1>18. ASSUME NEW c \in Callers, Notify(c) PROVE TypeOK'
    <2>1. job' \in [Callers -> Job]
        BY <1>17, <1>18
    <2>2. committed' \in [Replicas -> SUBSET Slots] /\ applied' \in [Replicas -> Seq(Values)]
        BY <1>18, CommittingEffect, CommitEffect DEF Committing
    <2>3. UNCHANGED <<role, term, electing, logging, lates, used, proposals, chosen>>
        BY <1>18 DEF Notify
    <2> QED BY <1>kept, <2>1, <2>2, <2>3 DEF TypeOK
<1>19. ASSUME NEW c \in Callers, NotifyLost(c) PROVE TypeOK'
    <2>1. job' \in [Callers -> Job]
        BY <1>17, <1>19
    <2> DEFINE m == [to |-> Next1(c), slot |-> First(job[c].todo).slot, term |-> job[c].term]
    <2>2. Next1(c) \in Replicas /\ First(job[c].todo) \in Driven
        BY <1>19, NotifyEffect
    <2>3. m \in Commits
        BY <2>2 DEF TypeOK, Job, Driven, Commits
    <2>w. lateCommits \in SUBSET Commits /\ lateCommits' = Waiting(lateCommits, m)
        BY <1>19 DEF NotifyLost, TypeOK, Commits
    <2> HIDE DEF m
    <2>4. lateCommits' \in SUBSET Commits
        BY <1>waiting, <2>3, <2>w
    <2>5. UNCHANGED <<role, term, electing, logging, applying, late, lateVotes, history>>
        BY <1>19 DEF NotifyLost
    <2> QED BY <2>1, <2>4, <2>5 DEF TypeOK, Commits
<1>20. ASSUME NEW r \in Replicas, LeaseEnds(r) PROVE TypeOK'
    BY <1>20 DEF LeaseEnds, TypeOK
<1>21. ASSUME NEW v \in Replicas, VoteEnds(v) PROVE TypeOK'
    <2>1. \A c \in Callers : job'[c] \in Job
        BY <1>21, VoteEndsEffect
    <2>2. job' \in [Callers -> Job]
        BY <1>21, <2>1 DEF VoteEnds
    <2>3. 0 \in 0..Members
        BY BoundsAssumption
    <2> QED BY <1>21, <2>2, <2>3 DEF VoteEnds, TypeOK
<1>22. ASSUME NEW m \in late, LateAccept(m) PROVE TypeOK'
    <2>1. m \in Requests
        BY DEF TypeOK, Requests
    <2>2. /\ late' \in SUBSET late
          /\ UNCHANGED <<role, electing, applying, job, lateVotes, lateCommits, used, proposals, chosen>>
        BY <1>22 DEF LateAccept
    <2>3. CASE Accept(m)
        <3>1. /\ term' \in [Replicas -> Terms] /\ log' \in [Replicas -> Log]
              /\ nextSlot' \in [Replicas -> 1..MaxSlot + 1]
            BY <2>1, <2>3, AcceptedEffect
        <3> QED BY <1>kept, <2>2, <3>1 DEF TypeOK
    <2>4. CASE UNCHANGED <<term, logging, kept>>
        BY <2>2, <2>4 DEF TypeOK
    <2> QED BY <1>22, <2>3, <2>4 DEF LateAccept
<1>23. ASSUME NEW m \in lateVotes, LateVote(m) PROVE TypeOK'
    <2>1. m \in VoteRequests
        BY DEF TypeOK, VoteRequests
    <2>2. /\ lateVotes' \in SUBSET lateVotes
          /\ UNCHANGED <<backers, logging, applying, job, late, lateCommits, used, proposals, chosen>>
        BY <1>23 DEF LateVote
    <2>3. CASE Vote(m.to, m.candidate, m.term)
        <3>1. /\ term' \in [Replicas -> Terms] /\ vote' \in [Replicas -> 0..Members]
              /\ role' \in [Replicas -> {"follower", "candidate", "leader"}]
            BY <2>1, <2>3, VotedEffect
        <3> QED BY <1>kept, <2>2, <3>1 DEF TypeOK
    <2>4. CASE UNCHANGED <<term, role, vote, kept>>
        BY <2>2, <2>4 DEF TypeOK
    <2> QED BY <1>23, <2>3, <2>4 DEF LateVote
<1>24. ASSUME NEW m \in lateCommits, LateCommit(m) PROVE TypeOK'
    <2>1. /\ lateCommits' \in SUBSET lateCommits
          /\ UNCHANGED <<role, term, electing, logging, job, late, lateVotes, used, proposals, chosen>>
        BY <1>24 DEF LateCommit
    <2>2. committed' \in [Replicas -> SUBSET Slots] /\ applied' \in [Replicas -> Seq(Values)]
        BY <1>24, CommittingEffect, CommitEffect DEF Committing
    <2> QED BY <1>kept, <2>1, <2>2 DEF TypeOK
<1> HIDE DEF electing, logging, applying, lates, history
<1> QED BY <1>1, <1>2, <1>4, <1>5, <1>6, <1>7, <1>8, <1>9, <1>10, <1>11, <1>13, <1>14, <1>15,
           <1>16, <1>18, <1>19, <1>20, <1>21, <1>22, <1>23, <1>24 DEF Next

(* A step is taken by one call, by a replica or by a late request. *)
LEMMA CallsStep ==
    ASSUME TypeOK, JobInv, Next, NEW d \in Callers
    PROVE  \/ job'[d] = job[d]
           \/ \E r \in Candidates : RequestLeadership(d, r) \/ StartPropose(d, r)
           \/ AskVote(d) \/ NoVote(d) \/ Win(d) \/ Lose(d)
           \/ Sync(d) \/ SyncDone(d)
           \/ Redrive(d) \/ TakeSlot(d)
           \/ AskAccept(d) \/ NoAccept(d) \/ Chosen(d) \/ NotChosen(d)
           \/ Notify(d) \/ NotifyLost(d)
           \/ \E v \in Replicas : VoteEnds(v)
<1>1. ASSUME NEW c \in Callers, Others(c), c # d PROVE job'[d] = job[d]
    BY <1>1 DEF Others
<1>2. ASSUME NEW c \in Callers, NEW r \in Candidates, RequestLeadership(c, r) \/ StartPropose(c, r)
      PROVE  Others(c)
    BY <1>2, RequestLeadershipEffect, StartProposeEffect
<1>3. ASSUME NEW c \in Callers, AskVote(c) \/ NoVote(c) \/ Win(c)
      PROVE  Others(c)
    BY <1>3, VoteEffect, WinEffect
<1>4. ASSUME NEW c \in Callers, Lose(c) PROVE Others(c)
    BY <1>4, EndedEffect DEF Lose
<1>5. ASSUME NEW c \in Callers, Sync(c) \/ SyncDone(c) PROVE Others(c)
    BY <1>5, SyncEffect, SyncDoneEffect
<1>6. ASSUME NEW c \in Callers, Redrive(c) PROVE Others(c)
    BY <1>6, RedriveEffect
<1>7. ASSUME NEW c \in Callers, TakeSlot(c) PROVE Others(c)
    BY <1>7, TakeSlotEffect, Zenon
<1>8. ASSUME NEW c \in Callers, AskAccept(c) \/ NoAccept(c) PROVE Others(c)
    BY <1>8, AcceptEffect
<1>9. ASSUME NEW c \in Callers, Chosen(c) \/ NotChosen(c) PROVE Others(c)
    BY <1>9, ChosenEffect, NotChosenEffect
<1>10. ASSUME NEW c \in Callers, Notify(c) \/ NotifyLost(c) PROVE Others(c)
    BY <1>10, NotifyEffect
<1>11. ASSUME NEW r \in Replicas, LeaseEnds(r) PROVE job'[d] = job[d]
    BY <1>11 DEF LeaseEnds
<1>12. ASSUME NEW m \in late, LateAccept(m) PROVE job'[d] = job[d]
    BY <1>12 DEF LateAccept
<1>13. ASSUME NEW m \in lateVotes, LateVote(m) PROVE job'[d] = job[d]
    BY <1>13 DEF LateVote
<1>14. ASSUME NEW m \in lateCommits, LateCommit(m) PROVE job'[d] = job[d]
    BY <1>14 DEF LateCommit
<1> QED BY <1>1, <1>2, <1>3, <1>4, <1>5, <1>6, <1>7, <1>8, <1>9, <1>10, <1>11, <1>12, <1>13, <1>14 DEF Next

(* Every step keeps the shape of the calls. *)
LEMMA JobInvStep ==
    ASSUME TypeOK, JobInv, Next
    PROVE  JobInv'
<1> SUFFICES ASSUME NEW c \in Callers PROVE JobOK(job'[c])
    BY DEF JobInv
<1>inv. JobOK(job[c])
    BY DEF JobInv
<1>1. CASE job'[c] = job[c]
    BY <1>inv, <1>1
<1>2. ASSUME NEW r \in Candidates, RequestLeadership(c, r) \/ StartPropose(c, r) PROVE JobOK(job'[c])
    BY <1>2, RequestLeadershipEffect, StartProposeEffect DEF JobOK
<1>3. CASE AskVote(c) \/ NoVote(c)
    <2>1. GoesOn(job'[c], job[c])
        BY <1>3, VoteEffect, AskedEffect
    <2> QED BY <1>inv, <2>1 DEF GoesOn, SameCall, JobOK
<1>4. CASE Win(c)
    <2>1. job'[c].phase = "sync" /\ SameCall(job'[c], job[c]) /\ job[c].phase = "vote"
        BY <1>4, WinEffect
    <2> QED BY <1>inv, <2>1 DEF SameCall, JobOK
<1>5. CASE job'[c] = Idle
    BY <1>5, IdleFields DEF JobOK
<1>6. CASE Lose(c)
    BY <1>5, <1>6, EndedEffect DEF Lose
<1>7. CASE Sync(c)
    <2>1. job'[c].phase = "sync" /\ SameCall(job'[c], job[c]) /\ job[c].phase = "sync"
        BY <1>7, SyncEffect
    <2> QED BY <1>inv, <2>1 DEF SameCall, JobOK
<1>8. ASSUME job'[c].phase = "drive", SameCall(job'[c], job[c])
      PROVE  JobOK(job'[c])
    BY <1>inv, <1>8 DEF SameCall, JobOK
<1>9. CASE SyncDone(c)
    <2>1. job'[c] = Idle \/ (job'[c].phase = "drive" /\ SameCall(job'[c], job[c]))
        BY <1>9, SyncDoneEffect DEF Driving1
    <2> QED BY <1>5, <1>8, <2>1
<1>10. CASE Redrive(c)
    BY <1>inv, <1>10, RedriveEffect DEF Driving1, JobOK
<1>11. CASE TakeSlot(c)
    <2>1. job'[c] = Idle \/ (job'[c].phase = "drive" /\ job'[c].ready)
        BY <1>11, TakeSlotEffect DEF Driving1
    <2> QED BY <1>5, <2>1 DEF JobOK
<1>12. CASE AskAccept(c) \/ NoAccept(c)
    <2>1. GoesOn(job'[c], job[c])
        BY <1>12, AcceptEffect, AskedEffect
    <2> QED BY <1>inv, <2>1 DEF GoesOn, SameCall, JobOK
<1>13. CASE Chosen(c)
    <2>1. /\ job'[c].phase = "commit" /\ SameCall(job'[c], job[c]) /\ job'[c].todo = job[c].todo
          /\ job[c].todo # {}
        BY <1>13, ChosenEffect
    <2> QED BY <1>inv, <2>1 DEF SameCall, JobOK
<1>14. CASE NotChosen(c)
    <2>1. job'[c] = Idle \/ (job'[c].phase = "drive" /\ SameCall(job'[c], job[c]))
        BY <1>14, NotChosenEffect DEF Driving1
    <2> QED BY <1>5, <1>8, <2>1
<1>15. CASE Notify(c) \/ NotifyLost(c)
    <2>1. \/ job'[c] = Idle \/ (job'[c].phase = "drive" /\ SameCall(job'[c], job[c]))
          \/ /\ job'[c].phase = "commit" /\ SameCall(job'[c], job[c]) /\ job'[c].todo = job[c].todo
             /\ job[c].todo # {}
        BY <1>15, NotifyEffect DEF Driving1
    <2> QED BY <1>inv, <1>5, <1>8, <2>1 DEF SameCall, JobOK
<1>16. ASSUME NEW v \in Replicas, VoteEnds(v) PROVE JobOK(job'[c])
    <2>1. /\ job'[c].phase = job[c].phase /\ SameCall(job'[c], job[c])
          /\ job'[c].todo = job[c].todo /\ job'[c].merged = job[c].merged
        BY <1>16, VoteEndsEffect
    <2> QED BY <1>inv, <2>1 DEF SameCall, JobOK
<1> QED BY <1>1, <1>2, <1>3, <1>4, <1>6, <1>7, <1>9, <1>10, <1>11, <1>12, <1>13, <1>14, <1>15,
           <1>16, CallsStep
-----------------------------------------------------------------------------
(* Who leads *)

(* A propose begins to prepare only at a leader that it finds synced. *)
LEMMA PreparingStep ==
    ASSUME BaseInv, Next, NEW r \in Replicas, Preparing(r)'
    PROVE  \/ Preparing(r)
           \/ /\ HasLease(r) /\ UNCHANGED <<role, term>>
              /\ "synced first" \in kept' =>
                    \A c \in Callers : job[c].at = r => job[c].calls # "election"
<1> DEFINE Synced == "synced first" \in kept' =>
                         \A c \in Callers : job[c].at = r => job[c].calls # "election"
<1>0. TypeOK /\ JobInv
    BY DEF BaseInv
<1>1. PICK d \in Callers : job'[d].at = r /\ ~job'[d].ready
    BY DEF Preparing
<1>2. SUFFICES ASSUME ~(job[d].at = r /\ ~job[d].ready)
               PROVE  HasLease(r) /\ UNCHANGED <<role, term>> /\ Synced
    BY DEF Preparing
<1>3. ~SameCall(job'[d], job[d])
    BY <1>1, <1>2 DEF SameCall
<1>4. job'[d] # job[d]
    BY <1>1, <1>2
<1>5. ASSUME NEW q \in Candidates, StartPropose(d, q)
      PROVE  HasLease(r) /\ UNCHANGED <<role, term>> /\ Synced
    <2>1. q = r
        BY <1>0, <1>1, <1>5, StartProposeEffect
    <2>2. ASSUME "synced first" \in kept', NEW c \in Callers, job[c].at = r
          PROVE  job[c].calls # "election"
        <3>1. ~ElectionRuns(r)
            BY <1>5, <2>1, <2>2 DEF StartPropose, Keep, Broken
        <3>2. JobOK(job[c])
            BY <1>0 DEF JobInv
        <3> QED BY <2>2, <3>1, <3>2 DEF ElectionRuns, JobOK
    <2> QED BY <1>5, <2>1, <2>2 DEF StartPropose
<1>6. ~\E q \in Candidates : RequestLeadership(d, q)
    BY <1>0, <1>1, RequestLeadershipEffect
<1>7. ~(AskVote(d) \/ NoVote(d))
    BY <1>0, <1>3, VoteEffect, AskedEffect DEF GoesOn
<1>8. ~Win(d) /\ ~Sync(d)
    BY <1>0, <1>3, WinEffect, SyncEffect
<1>9. job'[d] # Idle
    BY <1>1, IdleFields
<1>10. ~Lose(d)
    BY <1>0, <1>9, EndedEffect DEF Lose
<1>11. ~SyncDone(d)
    BY <1>0, <1>3, <1>9, SyncDoneEffect
<1>12. ~Redrive(d)
    BY <1>0, <1>1, <1>2, RedriveEffect
<1>13. ~TakeSlot(d)
    BY <1>0, <1>1, <1>9, TakeSlotEffect
<1>14. ~(AskAccept(d) \/ NoAccept(d))
    BY <1>0, <1>3, AcceptEffect, AskedEffect DEF GoesOn
<1>15. ~Chosen(d) /\ ~NotChosen(d)
    BY <1>0, <1>3, <1>9, ChosenEffect, NotChosenEffect
<1>16. ~Notify(d) /\ ~NotifyLost(d)
    BY <1>0, <1>3, <1>9, NotifyEffect
<1>17. ~\E v \in Replicas : VoteEnds(v)
    BY <1>0, <1>3, VoteEndsEffect
<1> QED BY <1>0, <1>4, <1>5, <1>6, <1>7, <1>8, <1>10, <1>11, <1>12, <1>13, <1>14, <1>15, <1>16, <1>17,
           CallsStep

(* A request that some log, call or late message lets an acceptor handle. *)
Accepting(m) ==
    /\ m \in Requests /\ Known(m.term, m.slot, m.value) /\ Accept(m)
    /\ UNCHANGED <<role, vote, backers>>

(* The request of a call carries an entry the call drives. *)
LEMMA DrivenIsKnown ==
    ASSUME TypeOK, NEW c \in Callers, Driving(c)
    PROVE  LET m == Request(c) IN
           m \in Requests /\ Drives(c, m.term, m.slot, m.value) /\ Known(m.term, m.slot, m.value)
<1>1. job[c].todo # {} /\ job[c].todo \in SUBSET Driven /\ job[c].phase = "drive"
    BY DEF Driving, Asking, TypeOK, Job
<1>2. First(job[c].todo) \in job[c].todo
    BY <1>1, FirstIsLeast
<1>3. Drives(c, Request(c).term, Request(c).slot, Request(c).value)
    BY <1>1, <1>2, RequestFields DEF Drives
<1> QED BY <1>3, RequestFields DEF Known

(* A vote that is granted, in time or late. *)
AskedVote(c) == [to |-> Next1(c), candidate |-> job[c].at, term |-> job[c].term]
Voting(m) ==
    /\ m \in VoteRequests /\ Vote(m.to, m.candidate, m.term)
    /\ m \in lateVotes \/ \E c \in Callers : AskVote(c) /\ m = AskedVote(c)
    /\ UNCHANGED <<backers, log, nextSlot>>

(* Both ways to handle a vote request are the same vote, or none. *)
LEMMA VotingStep ==
    ASSUME TypeOK
    PROVE  /\ \A c \in Callers : AskVote(c) => Voting(AskedVote(c)) /\ AskedVote(c) \in VoteRequests
           /\ \A m \in lateVotes : LateVote(m) =>
                 \/ UNCHANGED <<term, role, vote, backers, log, nextSlot>>
                 \/ Voting(m) /\ m \in VoteRequests
<1> USE DEF logging
<1>1. ASSUME NEW c \in Callers, AskVote(c)
      PROVE  Voting(AskedVote(c)) /\ AskedVote(c) \in VoteRequests
    <2>1. Next1(c) \in Replicas
        BY <1>1, VoteEffect DEF AskedYes, AskedNo
    <2>2. AskedVote(c) \in VoteRequests
        BY <2>1 DEF AskedVote, VoteRequests, TypeOK, Job
    <2>3. UNCHANGED <<backers, log, nextSlot>> /\ Vote(Next1(c), job[c].at, job[c].term)
        BY <1>1 DEF AskVote
    <2>4. Vote(AskedVote(c).to, AskedVote(c).candidate, AskedVote(c).term)
        BY <2>3 DEF AskedVote
    <2> QED BY <1>1, <2>2, <2>3, <2>4 DEF Voting
<1>2. ASSUME NEW m \in lateVotes, LateVote(m)
      PROVE  \/ UNCHANGED <<term, role, vote, backers, log, nextSlot>>
             \/ Voting(m) /\ m \in VoteRequests
    <2>1. m \in VoteRequests
        BY DEF TypeOK, VoteRequests
    <2> QED BY <1>2, <2>1 DEF LateVote, Voting
<1> QED BY <1>1, <1>2

(* A term or a log changes by an election, a vote or an accepted request. *)
LEMMA AcceptStep ==
    ASSUME TypeOK, Next
    PROVE  \/ UNCHANGED <<term, log>>
           \/ UNCHANGED log /\ \E c \in Callers, r \in Candidates : RequestLeadership(c, r)
           \/ UNCHANGED log /\ \E m \in VoteRequests : Voting(m)
           \/ \E m \in Requests : Accepting(m)
<1> USE DEF logging
<1>1. ASSUME NEW c \in Callers, AskAccept(c) PROVE Accepting(Request(c)) /\ Request(c) \in Requests
    BY <1>1, DrivenIsKnown DEF AskAccept, Accepting, electing
<1>2. ASSUME NEW m \in late, LateAccept(m)
      PROVE  UNCHANGED <<term, log>> \/ (Accepting(m) /\ m \in Requests)
    <2>1. m \in Requests
        BY DEF TypeOK, Requests
    <2>2. Known(m.term, m.slot, m.value)
        BY DEF Known, Delayed
    <2> QED BY <1>2, <2>1, <2>2 DEF LateAccept, Accepting, electing
<1>3. ASSUME NEW c \in Callers, NEW r \in Candidates, StartPropose(c, r) PROVE UNCHANGED <<term, log>>
    BY <1>3 DEF StartPropose
<1>4. ASSUME NEW c \in Callers, NoVote(c) \/ Win(c) \/ Lose(c) \/ Sync(c) \/ SyncDone(c)
                                \/ Redrive(c) \/ TakeSlot(c)
      PROVE  UNCHANGED <<term, log>>
    BY <1>4 DEF NoVote, Win, Lose, Sync, SyncDone, Redrive, TakeSlot
<1>5. ASSUME NEW c \in Callers, NoAccept(c) \/ Chosen(c) \/ NotChosen(c) \/ Notify(c) \/ NotifyLost(c)
      PROVE  UNCHANGED <<term, log>>
    BY <1>5 DEF NoAccept, Chosen, NotChosen, Notify, NotifyLost
<1>6. ASSUME NEW r \in Replicas, LeaseEnds(r) \/ VoteEnds(r) PROVE UNCHANGED <<term, log>>
    BY <1>6 DEF LeaseEnds, VoteEnds
<1>7. ASSUME NEW c \in Callers, NEW r \in Candidates, RequestLeadership(c, r) PROVE UNCHANGED log
    BY <1>7 DEF RequestLeadership
<1>8. ASSUME NEW c \in Callers, AskVote(c)
      PROVE  UNCHANGED log /\ \E m \in VoteRequests : Voting(m)
    BY <1>8, VotingStep DEF Voting
<1>9. ASSUME NEW m \in lateVotes, LateVote(m)
      PROVE  UNCHANGED <<term, log>> \/ (UNCHANGED log /\ \E l \in VoteRequests : Voting(l))
    BY <1>9, VotingStep DEF Voting
<1>10. ASSUME NEW m \in lateCommits, LateCommit(m) PROVE UNCHANGED <<term, log>>
    BY <1>10 DEF LateCommit
<1> QED BY <1>1, <1>2, <1>3, <1>4, <1>5, <1>6, <1>7, <1>8, <1>9, <1>10 DEF Next

(* A term that changes grows, and breaks a condition while its replica counts votes or
   prepares. *)
LEMMA TermStep ==
    ASSUME TypeOK, Next, NEW q \in Replicas, term'[q] # term[q]
    PROVE  /\ term'[q] > term[q] /\ (Unique' => ~Preparing(q) /\ ~Counting(q))
           /\ \/ \E c \in Callers : RequestLeadership(c, q) /\ q \in Candidates
              \/ \E m \in VoteRequests : Voting(m) /\ m.to = q /\ term'[q] = m.term
              \/ \E m \in Requests : Accepting(m) /\ m.to = q /\ term'[q] = m.term
<1> DEFINE Free == Unique' => ~Preparing(q) /\ ~Counting(q)
<1>0. ASSUME NEW t, t > term[q], \E broken : Keep(broken \cup Broken("term stands", Raised(q, t))) PROVE Free
    BY <1>0 DEF Unique, UniqueConditions, Keep, Broken, Raised
<1>1. ASSUME NEW c \in Callers, NEW r \in Candidates, RequestLeadership(c, r)
      PROVE  term'[q] > term[q] /\ Free /\ q = r
    <2>1. r \in Replicas
        BY <1>1, RequestLeadershipEffect
    <2>2. term' = [term EXCEPT ![r] = term[r] + 1]
          /\ Keep(Broken("own terms", term[r] + 1 \in used) \cup Broken("term stands", Raised(r, term[r] + 1)))
        BY <1>1 DEF RequestLeadership
    <2>3. q = r /\ term'[q] = term[q] + 1
        BY <2>1, <2>2 DEF TypeOK
    <2>4. term'[q] > term[q] /\ term[q] + 1 > term[q]
        BY TypeFacts, <2>3
    <2> QED BY <1>0, <2>2, <2>3, <2>4
<1>2. ASSUME NEW m \in VoteRequests, Voting(m)
      PROVE  term'[q] > term[q] /\ Free /\ m.to = q /\ term'[q] = m.term
    <2>1. m.to \in Replicas /\ m.term \in Nat
        BY TypeFacts DEF VoteRequests
    <2>2. term' = [term EXCEPT ![m.to] = m.term] /\ m.term >= term[m.to]
        BY <1>2 DEF Voting, Vote, Grants
    <2>3. m.to = q /\ term'[q] = m.term
        BY <2>1, <2>2 DEF TypeOK
    <2>4. term'[q] > term[q] /\ m.term > term[q]
        BY TypeFacts, <2>1, <2>2, <2>3
    <2>5. Keep({} \cup Broken("term stands", Raised(q, m.term)))
        BY <1>2, <2>3 DEF Voting, Vote, Grants
    <2> QED BY <1>0, <2>3, <2>4, <2>5
<1>3. ASSUME NEW m \in Requests, Accepting(m)
      PROVE  term'[q] > term[q] /\ Free /\ m.to = q /\ term'[q] = m.term
    <2>1. m.to \in Replicas /\ m.term \in Nat
        BY TypeFacts DEF Requests
    <2>2. term' = [term EXCEPT ![m.to] = m.term] /\ m.term >= term[m.to]
        BY <1>3 DEF Accepting, Accept
    <2>3. m.to = q /\ term'[q] = m.term
        BY <2>1, <2>2 DEF TypeOK
    <2>4. term'[q] > term[q] /\ m.term > term[q]
        BY TypeFacts, <2>1, <2>2, <2>3
    <2>5. Keep({} \cup Broken("term stands", Raised(q, m.term)))
        BY <1>3, <2>3 DEF Accepting, Accept
    <2> QED BY <1>0, <2>3, <2>4, <2>5
<1> HIDE DEF Free
<1>4. term'[q] > term[q] /\ Free
    BY <1>1, <1>2, <1>3, AcceptStep
<1> QED BY <1>1, <1>2, <1>3, <1>4, AcceptStep DEF Free

-----------------------------------------------------------------------------
(* What only grows *)

(* Terms never fall. *)
LEMMA TermGrows ==
    ASSUME BaseInv, Next, NEW q \in Replicas
    PROVE  term'[q] >= term[q] /\ term'[q] \in Nat
<1> USE DEF BaseInv
<1>0. term'[q] \in Nat
    BY TypeStep, TypeFacts DEF TypeOK
<1>1. CASE term'[q] = term[q]
    BY <1>1, TypeFacts
<1>2. CASE term'[q] # term[q]
    <2>1. term'[q] > term[q] /\ term[q] \in Nat
        BY <1>2, TermStep, TypeFacts
    <2> QED BY <1>0, <2>1
<1> QED BY <1>1, <1>2

(* A log changes where a request is accepted, and takes its entry. *)
LEMMA LogStep ==
    ASSUME TypeOK, Next, NEW q \in Replicas, NEW s \in Slots
    PROVE  \/ log'[q][s] = log[q][s]
           \/ \E m \in Requests :
                 /\ Accepting(m) /\ m.to = q /\ m.slot = s /\ m.term >= term[q]
                 /\ term'[q] = m.term /\ nextSlot'[q] > s
                 /\ log'[q][s] = [term |-> m.term, value |-> m.value]
<1>1. ASSUME NEW m \in Requests, Accepting(m), log'[q][s] # log[q][s]
      PROVE  /\ Accepting(m) /\ m.to = q /\ m.slot = s /\ m.term >= term[q]
             /\ term'[q] = m.term /\ nextSlot'[q] > s
             /\ log'[q][s] = [term |-> m.term, value |-> m.value]
    <2>1. Accept(m) /\ m.to \in Replicas
        BY <1>1 DEF Accepting, Requests
    <2>2. q = m.to /\ s = m.slot
        <3>1. \A p \in Replicas, i \in Slots : ~(p = m.to /\ i = m.slot) => log'[p][i] = log[p][i]
            BY <2>1, AcceptedEffect
        <3> QED BY <1>1, <3>1
    <2>3. term' = [term EXCEPT ![m.to] = m.term]
        BY <2>1, AcceptedEffect
    <2>4. term'[q] = m.term
        BY <2>1, <2>2, <2>3 DEF TypeOK
    <2> QED BY <1>1, <2>1, <2>2, <2>4, AcceptedEffect
<1> QED BY <1>1, AcceptStep

(* The term of a slot never falls. *)
LEMMA LogGrows ==
    ASSUME TypeOK, TermInv, Next, NEW q \in Replicas, NEW s \in Slots
    PROVE  log'[q][s].term >= log[q][s].term
<1>1. CASE log'[q][s] = log[q][s]
    BY <1>1, TypeFacts
<1>2. ASSUME NEW m \in Requests, m.term >= term[q], log'[q][s] = [term |-> m.term, value |-> m.value]
      PROVE  log'[q][s].term >= log[q][s].term
    <2>1. log[q][s].term <= term[q]
        BY DEF TermInv
    <2>2. log'[q][s].term = m.term /\ m.term \in Nat /\ term[q] \in Nat /\ log[q][s].term \in Nat
        BY <1>2, TypeFacts DEF Requests
    <2> QED BY <1>2, <2>1, <2>2
<1>3. CASE log'[q][s] # log[q][s]
    <2>1. PICK m \in Requests :
              m.term >= term[q] /\ log'[q][s] = [term |-> m.term, value |-> m.value]
        BY <1>3, LogStep
    <2> QED BY <1>2, <2>1
<1> QED BY <1>1, <1>3

(* The next slot never moves back. *)
LEMMA NextSlotGrows ==
    ASSUME BaseInv, Next, NEW q \in Replicas
    PROVE  nextSlot'[q] >= nextSlot[q]
<1> USE DEF BaseInv
<1>0. nextSlot[q] \in Nat
    BY TypeFacts
<1>1. CASE UNCHANGED nextSlot
    BY <1>0, <1>1
<1>2. ASSUME NEW c \in Callers, SyncDone(c) PROVE nextSlot'[q] >= nextSlot[q]
    BY <1>2, NextAfterSync
<1>3. ASSUME NEW c \in Callers, TakeSlot(c) PROVE nextSlot'[q] >= nextSlot[q]
    <2>1. CASE UNCHANGED <<proposals, nextSlot>>
        BY <1>1, <2>1
    <2>2. CASE nextSlot' = [nextSlot EXCEPT ![job[c].at] = @ + 1]
        BY <1>0, <2>2 DEF TypeOK
    <2> QED BY <1>3, <2>1, <2>2, TakeSlotEffect
<1>4. ASSUME NEW c \in Callers, AskAccept(c) PROVE nextSlot'[q] >= nextSlot[q]
    BY <1>4, RequestFields, AcceptedEffect DEF AskAccept
<1>5. ASSUME NEW m \in late, LateAccept(m) PROVE nextSlot'[q] >= nextSlot[q]
    <2>1. m \in Requests
        BY DEF TypeOK, Requests
    <2>2. CASE UNCHANGED <<term, logging, kept>>
        BY <1>1, <2>2 DEF logging
    <2> QED BY <1>5, <2>1, <2>2, AcceptedEffect DEF LateAccept
<1>6. ASSUME NEW c \in Callers, NEW r \in Candidates, RequestLeadership(c, r) \/ StartPropose(c, r)
      PROVE  UNCHANGED nextSlot
    BY <1>6 DEF RequestLeadership, StartPropose, logging
<1>7. ASSUME NEW c \in Callers, AskVote(c) \/ NoVote(c) \/ Win(c) \/ Lose(c) \/ Sync(c) \/ Redrive(c)
      PROVE  UNCHANGED nextSlot
    BY <1>7 DEF AskVote, NoVote, Win, Lose, Sync, Redrive, logging
<1>8. ASSUME NEW c \in Callers, NoAccept(c) \/ Chosen(c) \/ NotChosen(c) \/ Notify(c) \/ NotifyLost(c)
      PROVE  UNCHANGED nextSlot
    BY <1>8 DEF NoAccept, Chosen, NotChosen, Notify, NotifyLost, logging
<1>9. ASSUME NEW r \in Replicas, LeaseEnds(r) \/ VoteEnds(r) PROVE UNCHANGED nextSlot
    BY <1>9 DEF LeaseEnds, VoteEnds, logging
<1>10. ASSUME NEW m \in lateVotes, LateVote(m) PROVE UNCHANGED nextSlot
    BY <1>10 DEF LateVote, logging
<1>11. ASSUME NEW m \in lateCommits, LateCommit(m) PROVE UNCHANGED nextSlot
    BY <1>11 DEF LateCommit, logging
<1> QED BY <1>1, <1>2, <1>3, <1>4, <1>5, <1>6, <1>7, <1>8, <1>9, <1>10, <1>11 DEF Next

(* No used term or chosen value is forgotten. *)
LEMMA HistoryGrows ==
    ASSUME TypeOK, Next
    PROVE  used \subseteq used' /\ \A s \in Slots : chosen[s] \subseteq chosen'[s]
<1> USE DEF history
<1>1. ASSUME NEW c \in Callers, NEW r \in Candidates, RequestLeadership(c, r)
      PROVE  used \subseteq used' /\ UNCHANGED chosen
    BY <1>1 DEF RequestLeadership
<1>2. ASSUME NEW c \in Callers, Chosen(c)
      PROVE  UNCHANGED used /\ \A s \in Slots : chosen[s] \subseteq chosen'[s]
    BY <1>2 DEF Chosen, TypeOK
<1>3. ASSUME NEW c \in Callers, NEW r \in Candidates, StartPropose(c, r) PROVE UNCHANGED <<used, chosen>>
    BY <1>3 DEF StartPropose
<1>4. ASSUME NEW c \in Callers, AskVote(c) \/ NoVote(c) \/ Win(c) \/ Lose(c) \/ Sync(c) \/ SyncDone(c)
                                \/ Redrive(c) \/ TakeSlot(c)
      PROVE  UNCHANGED <<used, chosen>>
    BY <1>4 DEF AskVote, NoVote, Win, Lose, Sync, SyncDone, Redrive, TakeSlot
<1>5. ASSUME NEW c \in Callers, AskAccept(c) \/ NoAccept(c) \/ NotChosen(c) \/ Notify(c) \/ NotifyLost(c)
      PROVE  UNCHANGED <<used, chosen>>
    BY <1>5 DEF AskAccept, NoAccept, NotChosen, Notify, NotifyLost
<1>6. ASSUME NEW r \in Replicas, LeaseEnds(r) \/ VoteEnds(r) PROVE UNCHANGED <<used, chosen>>
    BY <1>6 DEF LeaseEnds, VoteEnds
<1>7. ASSUME NEW m \in late, LateAccept(m) PROVE UNCHANGED <<used, chosen>>
    BY <1>7 DEF LateAccept
<1>8. ASSUME NEW m \in lateVotes, LateVote(m) PROVE UNCHANGED <<used, chosen>>
    BY <1>8 DEF LateVote
<1>9. ASSUME NEW m \in lateCommits, LateCommit(m) PROVE UNCHANGED <<used, chosen>>
    BY <1>9 DEF LateCommit
<1> QED BY <1>1, <1>2, <1>3, <1>4, <1>5, <1>6, <1>7, <1>8, <1>9 DEF Next

-----------------------------------------------------------------------------
(* What is known, who serves and who leads after a step *)

(* Two calls do not finish such a step at once. *)
Moves(c) == Win(c) \/ SyncDone(c) \/ Redrive(c) \/ TakeSlot(c)
            \/ \E r \in Candidates : RequestLeadership(c, r) \/ StartPropose(c, r)

(* A caller that moves on leaves the other calls alone. *)
LEMMA OneMoves ==
    ASSUME BaseInv, NEW c \in Callers, NEW d \in Callers, Moves(c), job'[d] # job[d]
    PROVE  c = d
<1> USE DEF BaseInv
<1>1. Others(c)
    <2>1. ASSUME Win(c) \/ SyncDone(c) \/ Redrive(c) PROVE Others(c)
        BY <2>1, WinEffect, SyncDoneEffect, RedriveEffect
    <2>2. ASSUME TakeSlot(c) PROVE Others(c)
        BY <2>2, TakeSlotEffect, Zenon
    <2>3. ASSUME NEW r \in Candidates, RequestLeadership(c, r) \/ StartPropose(c, r) PROVE Others(c)
        BY <2>3, RequestLeadershipEffect, StartProposeEffect
    <2> QED BY <2>1, <2>2, <2>3 DEF Moves
<1> QED BY <1>1 DEF Others

(* Moving on changes the call. *)
LEMMA MoverMoves ==
    ASSUME BaseInv, NEW c \in Callers, Moves(c)
    PROVE  job'[c] # job[c]
<1> USE DEF BaseInv
<1>1. ASSUME Win(c) PROVE job'[c].phase = "sync" /\ job[c].phase = "vote"
    BY <1>1, WinEffect
<1>2. ASSUME SyncDone(c) PROVE job'[c].phase # "sync" /\ job[c].phase = "sync"
    BY <1>2, SyncDoneEffect, IdleFields DEF Driving1
<1>3. ASSUME Redrive(c) PROVE job'[c].phase = "drive" /\ job[c].phase = "redrive"
    BY <1>3, RedriveEffect DEF Driving1
<1>4. ASSUME TakeSlot(c) PROVE job'[c].ready /\ ~job[c].ready
    BY <1>4, TakeSlotEffect, IdleFields
<1>5. ASSUME NEW r \in Candidates, RequestLeadership(c, r)
      PROVE  job'[c].phase = "vote" /\ job[c].phase = "idle"
    BY <1>5, RequestLeadershipEffect DEF RequestLeadership
<1>6. ASSUME NEW r \in Candidates, StartPropose(c, r)
      PROVE  job'[c].phase = "redrive" /\ job[c].phase = "idle"
    BY <1>6, StartProposeEffect
<1> QED BY <1>1, <1>2, <1>3, <1>4, <1>5, <1>6 DEF Moves

(* At most one caller moves on in a step. *)
LEMMA OneMover ==
    ASSUME BaseInv, NEW c \in Callers, NEW d \in Callers, Moves(c), Moves(d)
    PROVE  c = d
BY OneMoves, MoverMoves

(* What a call is about to write that nothing held before. *)
NewFound(c, t, s, v) ==
    /\ SyncDone(c) /\ t = job[c].term /\ job[c].merged[s] # NoEntry /\ job[c].merged[s].value = v
    /\ \E e \in Entries(job[c].merged) : e.slot = s
NewDriven(c, t, s, v) ==
    LET r == job[c].at IN
    Redrive(c) /\ t = term[r] /\ log[r][s] # NoEntry /\ log[r][s].value = v
NewTaken(c, t, s, v) ==
    LET r == job[c].at IN
    TakeSlot(c) /\ t = term[r] /\ s = nextSlot[r] /\ nextSlot'[r] > s /\ v = proposals + 1
New(c, t, s, v) == NewFound(c, t, s, v) \/ NewDriven(c, t, s, v) \/ NewTaken(c, t, s, v)

(* The entries a call drives after a step: those it drove, or new ones. *)
LEMMA DrivesStep ==
    ASSUME BaseInv, Next, NEW c \in Callers, NEW t, NEW s, NEW v, Drives(c, t, s, v)'
    PROVE  Drives(c, t, s, v) \/ New(c, t, s, v)
<1> USE DEF BaseInv
<1>0. PICK e \in job'[c].todo : e.slot = s /\ e.value = v
    BY DEF Drives
<1>p. job'[c].phase \in {"drive", "commit"} /\ job'[c].term = t
    BY DEF Drives
<1>1. ASSUME job'[c].todo \subseteq job[c].todo, SameCall(job'[c], job[c]),
             job[c].phase \in {"drive", "commit"}
      PROVE  Drives(c, t, s, v)
    BY <1>0, <1>p, <1>1 DEF SameCall, Drives
<1>2. CASE job'[c] = job[c]
    BY <1>0, <1>p, <1>2 DEF Drives
<1>3. ~\E r \in Candidates : RequestLeadership(c, r) \/ StartPropose(c, r)
    BY <1>p, RequestLeadershipEffect, StartProposeEffect
<1>4. ~(AskVote(c) \/ NoVote(c))
    BY <1>p, VoteEffect, AskedEffect DEF GoesOn
<1>5. ~Win(c) /\ ~Sync(c)
    BY <1>p, WinEffect, SyncEffect
<1>6. job'[c] # Idle
    BY <1>p, IdleFields
<1>7. ~Lose(c)
    BY <1>6, EndedEffect DEF Lose
<1>8. CASE SyncDone(c)
    <2>1. Driving1(job'[c], Entries(job[c].merged)) /\ SameCall(job'[c], job[c])
        BY <1>6, <1>8, SyncDoneEffect
    <2>2. e \in Entries(job[c].merged) /\ job[c].merged \in Log
        BY <1>0, <2>1 DEF Driving1, TypeOK, Job
    <2>3. job[c].merged[s] # NoEntry /\ job[c].merged[s].value = v
        BY <1>0, <2>2, EntriesFields
    <2> QED BY <1>0, <1>p, <1>8, <2>1, <2>2, <2>3 DEF SameCall, New, NewFound
<1>9. CASE Redrive(c)
    <2> DEFINE r == job[c].at
    <2>1. /\ Uncommitted(r) \in Log /\ Driving1(job'[c], Entries(Uncommitted(r)))
          /\ job'[c].term = term[r]
        BY <1>9, RedriveEffect
    <2>2. e \in Entries(Uncommitted(r))
        BY <1>0, <2>1 DEF Driving1
    <2>3. Uncommitted(r)[s] # NoEntry /\ Uncommitted(r)[s].value = v /\ s \in Slots
        BY <1>0, <2>1, <2>2, EntriesFields DEF Driven
    <2>4. Uncommitted(r)[s] = log[r][s]
        BY <2>3 DEF Uncommitted
    <2> QED BY <1>p, <1>9, <2>1, <2>3, <2>4 DEF New, NewDriven
<1>10. CASE TakeSlot(c)
    <2> DEFINE r == job[c].at
    <2>1. /\ Driving1(job'[c], {NewEntry(c)}) /\ job'[c].term = term[r] /\ r \in Replicas
          /\ nextSlot' = [nextSlot EXCEPT ![r] = @ + 1]
        BY <1>6, <1>10, TakeSlotEffect
    <2>2. e = NewEntry(c)
        BY <1>0, <2>1 DEF Driving1
    <2>3. s = nextSlot[r] /\ v = proposals + 1
        BY <1>0, <2>2 DEF NewEntry
    <2>4. nextSlot'[r] = nextSlot[r] + 1 /\ nextSlot[r] \in Nat
        BY <2>1, TypeFacts DEF TypeOK
    <2>5. nextSlot'[r] > s
        BY <2>3, <2>4
    <2> QED BY <1>p, <1>10, <2>1, <2>3, <2>5 DEF New, NewTaken
<1>11. CASE AskAccept(c) \/ NoAccept(c)
    <2>1. GoesOn(job'[c], job[c]) /\ job[c].phase = "drive"
        BY <1>11, AcceptEffect, AskedEffect
    <2> QED BY <1>1, <2>1 DEF GoesOn
<1>12. CASE Chosen(c)
    <2>1. job'[c].todo = job[c].todo /\ SameCall(job'[c], job[c]) /\ job[c].phase = "drive"
        BY <1>12, ChosenEffect
    <2> QED BY <1>1, <2>1
<1>13. CASE NotChosen(c)
    <2>1. job'[c].todo \subseteq job[c].todo /\ SameCall(job'[c], job[c]) /\ job[c].phase = "drive"
        BY <1>6, <1>13, NotChosenEffect DEF Driving1
    <2> QED BY <1>1, <2>1
<1>14. CASE Notify(c) \/ NotifyLost(c)
    <2>1. job'[c].todo \subseteq job[c].todo /\ SameCall(job'[c], job[c]) /\ job[c].phase = "commit"
        BY <1>6, <1>14, NotifyEffect DEF Driving1
    <2> QED BY <1>1, <2>1
<1>15. ASSUME NEW q \in Replicas, VoteEnds(q) PROVE Drives(c, t, s, v)
    <2>1. job'[c].todo = job[c].todo /\ SameCall(job'[c], job[c]) /\ job'[c].phase = job[c].phase
        BY <1>15, VoteEndsEffect
    <2> QED BY <1>1, <1>p, <2>1
<1> QED BY <1>2, <1>3, <1>4, <1>5, <1>7, <1>8, <1>9, <1>10, <1>11, <1>12, <1>13, <1>14, <1>15, CallsStep

(* What a sync has found is an entry known before. *)
LEMMA FoundStep ==
    ASSUME BaseInv, Next, NEW c \in Callers, NEW t \in Terms, NEW s \in Slots, NEW v, Found(c, t, s, v)'
    PROVE  Found(c, t, s, v) \/ Held(t, s, v)
<1> USE DEF BaseInv
<1>p. /\ job'[c].phase = "sync" /\ job'[c].merged[s] # NoEntry
      /\ job'[c].merged[s].term = t /\ job'[c].merged[s].value = v
    BY DEF Found
<1>1. ASSUME job'[c].merged = job[c].merged, job[c].phase = "sync" PROVE Found(c, t, s, v)
    BY <1>p, <1>1 DEF Found
<1>2. CASE job'[c] = job[c]
    BY <1>1, <1>2, <1>p
<1>3. ~\E r \in Candidates : RequestLeadership(c, r) \/ StartPropose(c, r)
    BY <1>p, RequestLeadershipEffect, StartProposeEffect
<1>4. ~(AskVote(c) \/ NoVote(c))
    BY <1>p, VoteEffect, AskedEffect DEF GoesOn
<1>5. ~Win(c)
    <2>1. ASSUME Win(c) PROVE FALSE
        <3>1. job'[c].merged = job[c].merged /\ job[c].phase = "vote"
            BY <2>1, WinEffect
        <3>2. job[c].merged = EmptyLog
            BY <3>1 DEF JobInv, JobOK
        <3> QED BY <1>p, <3>1, <3>2 DEF EmptyLog
    <2> QED BY <2>1
<1>6. CASE Sync(c)
    <2> DEFINE q == Next1(c)
    <2>1. /\ q \in Replicas /\ job[c].phase = "sync"
          /\ \/ job'[c].merged = Merge(job[c].merged, log[q])
             \/ job'[c].merged = job[c].merged
        BY <1>6, SyncEffect
    <2>2. job[c].merged \in Log /\ log[q] \in Log
        BY <2>1 DEF TypeOK, Job
    <2>3. job'[c].merged[s] \in {job[c].merged[s], log[q][s]}
        BY <2>1, <2>2, MergeFields
    <2>4. CASE job'[c].merged[s] = job[c].merged[s]
        BY <1>p, <2>1, <2>4 DEF Found
    <2>5. CASE job'[c].merged[s] = log[q][s]
        BY <1>p, <2>1, <2>5 DEF Held
    <2> QED BY <2>3, <2>4, <2>5
<1>7. job'[c] # Idle
    BY <1>p, IdleFields
<1>8. ~Lose(c)
    BY <1>7, EndedEffect DEF Lose
<1>9. ~SyncDone(c) /\ ~Redrive(c)
    BY <1>p, <1>7, SyncDoneEffect, RedriveEffect DEF Driving1
<1>10. ~TakeSlot(c)
    BY <1>p, <1>7, TakeSlotEffect DEF Driving1
<1>11. ~(AskAccept(c) \/ NoAccept(c))
    BY <1>p, AcceptEffect, AskedEffect DEF GoesOn
<1>12. ~Chosen(c) /\ ~NotChosen(c)
    BY <1>p, <1>7, ChosenEffect, NotChosenEffect DEF Driving1
<1>13. ~Notify(c) /\ ~NotifyLost(c)
    BY <1>p, <1>7, NotifyEffect DEF Driving1
<1>14. ASSUME NEW q \in Replicas, VoteEnds(q) PROVE Found(c, t, s, v)
    <2>1. job'[c].merged = job[c].merged /\ job'[c].phase = job[c].phase
        BY <1>14, VoteEndsEffect
    <2> QED BY <1>1, <1>p, <2>1
<1> QED BY <1>2, <1>3, <1>4, <1>5, <1>6, <1>8, <1>9, <1>10, <1>11, <1>12, <1>13, <1>14, CallsStep

(* An entry in a log was known before. *)
LEMMA HeldStep ==
    ASSUME TypeOK, Next, NEW t \in Terms, NEW s \in Slots, NEW v \in Values, Held(t, s, v)'
    PROVE  Known(t, s, v)
<1>1. PICK q \in Replicas : log'[q][s].term = t /\ log'[q][s].value = v /\ log'[q][s] # NoEntry
    BY DEF Held
<1>2. CASE log'[q][s] = log[q][s]
    BY <1>1, <1>2 DEF Held, Known
<1>3. CASE log'[q][s] # log[q][s]
    <2>1. PICK m \in Requests : /\ Accepting(m) /\ m.slot = s
                                /\ log'[q][s] = [term |-> m.term, value |-> m.value]
        BY <1>3, LogStep
    <2>2. m.term = t /\ m.value = v
        BY <1>1, <2>1
    <2> QED BY <2>1, <2>2 DEF Accepting
<1> QED BY <1>2, <1>3

(* An entry of a delayed request was known before. *)
LEMMA DelayedStep ==
    ASSUME TypeOK, Next, NEW t \in Terms, NEW s \in Slots, NEW v \in Values, Delayed(t, s, v)'
    PROVE  Known(t, s, v)
<1> USE DEF history
<1>1. PICK m \in late' : m.term = t /\ m.slot = s /\ m.value = v
    BY DEF Delayed
<1> USE DEF lates
<1>2. CASE m \in late
    BY <1>1, <1>2 DEF Delayed, Known
<1>3. ASSUME NEW c \in Callers, NoAccept(c), m \notin late PROVE Known(t, s, v)
    <2>1. m = Request(c) /\ Driving(c)
        BY <1>1, <1>3 DEF NoAccept, Waiting
    <2> QED BY <1>1, <2>1, DrivenIsKnown
<1>4. ASSUME NEW c \in Callers, NEW r \in Candidates, RequestLeadership(c, r) \/ StartPropose(c, r)
      PROVE  UNCHANGED late
    BY <1>4 DEF RequestLeadership, StartPropose
<1>5. ASSUME NEW c \in Callers, AskVote(c) \/ NoVote(c) \/ Win(c) \/ Lose(c) \/ Sync(c) \/ SyncDone(c)
                                \/ Redrive(c) \/ TakeSlot(c)
      PROVE  UNCHANGED late
    BY <1>5 DEF AskVote, NoVote, Win, Lose, Sync, SyncDone, Redrive, TakeSlot
<1>6. ASSUME NEW c \in Callers, AskAccept(c) \/ Chosen(c) \/ NotChosen(c) \/ Notify(c) \/ NotifyLost(c)
      PROVE  UNCHANGED late
    BY <1>6 DEF AskAccept, Chosen, NotChosen, Notify, NotifyLost
<1>7. ASSUME NEW r \in Replicas, LeaseEnds(r) \/ VoteEnds(r) PROVE UNCHANGED late
    BY <1>7 DEF LeaseEnds, VoteEnds
<1>8. ASSUME NEW l \in late, LateAccept(l) PROVE late' \subseteq late
    BY <1>8 DEF LateAccept
<1>9. ASSUME NEW l \in lateVotes, LateVote(l) PROVE UNCHANGED late
    BY <1>9 DEF LateVote
<1>10. ASSUME NEW l \in lateCommits, LateCommit(l) PROVE UNCHANGED late
    BY <1>10 DEF LateCommit
<1> QED BY <1>1, <1>2, <1>3, <1>4, <1>5, <1>6, <1>7, <1>8, <1>9, <1>10 DEF Next

(* An entry known after a step was known, or the step brought it in. *)
LEMMA KnownStep ==
    ASSUME BaseInv, Next, NEW t \in Terms, NEW s \in Slots, NEW v \in Values, Known(t, s, v)'
    PROVE  Known(t, s, v) \/ \E c \in Callers : New(c, t, s, v)
<1> USE DEF BaseInv
<1>1. CASE Held(t, s, v)'
    BY <1>1, HeldStep
<1>2. CASE Delayed(t, s, v)'
    BY <1>2, DelayedStep
<1>3. ASSUME NEW c \in Callers, Drives(c, t, s, v)' PROVE Known(t, s, v) \/ New(c, t, s, v)
    BY <1>3, DrivesStep DEF Known
<1>4. ASSUME NEW c \in Callers, Found(c, t, s, v)' PROVE Known(t, s, v)
    BY <1>4, FoundStep DEF Known
<1> QED BY <1>1, <1>2, <1>3, <1>4 DEF Known

(* A replica that re-drives or takes a slot is preparing. *)
LEMMA NewIsWon ==
    ASSUME BaseInv, NEW c \in Callers, NEW t, NEW s \in Slots, NEW v, New(c, t, s, v)
    PROVE  /\ Moves(c) /\ Won(t)
           /\ \/ SyncDone(c) /\ job[c].phase = "sync" /\ t = job[c].term
              \/ /\ ~SyncDone(c) /\ Preparing(job[c].at) /\ Leads(job[c].at)
                 /\ job[c].at \in Replicas /\ t = term[job[c].at]
<1> USE DEF BaseInv
<1>1. ASSUME NewFound(c, t, s, v)
      PROVE  Moves(c) /\ Won(t) /\ SyncDone(c) /\ job[c].phase = "sync" /\ t = job[c].term
    <2>1. SyncDone(c) /\ t = job[c].term
        BY <1>1 DEF NewFound
    <2>2. job[c].phase = "sync"
        BY <2>1, SyncDoneEffect
    <2> QED BY <2>1, <2>2 DEF Moves, Won, Serving
<1>2. ASSUME Redrive(c) \/ TakeSlot(c)
      PROVE  /\ ~SyncDone(c) /\ Preparing(job[c].at) /\ Leads(job[c].at) /\ Moves(c)
             /\ job[c].at \in Replicas
    <2>1. job[c].phase # "sync" /\ ~job[c].ready
        BY <1>2, RedriveEffect, TakeSlotEffect
    <2>2. ~SyncDone(c)
        BY <2>1, SyncDoneEffect
    <2> QED BY <1>2, <2>1, <2>2, TypeFacts DEF Preparing, Leads, Moves
<1>3. ASSUME NewDriven(c, t, s, v) \/ NewTaken(c, t, s, v)
      PROVE  /\ Moves(c) /\ Won(t) /\ ~SyncDone(c) /\ Preparing(job[c].at) /\ Leads(job[c].at)
             /\ job[c].at \in Replicas /\ t = term[job[c].at]
    <2>1. (Redrive(c) \/ TakeSlot(c)) /\ t = term[job[c].at]
        BY <1>3 DEF NewDriven, NewTaken
    <2> QED BY <1>2, <2>1 DEF Won
<1> QED BY <1>1, <1>3 DEF New

(* Where a call that serves a term has it from. *)
LEMMA ServingStep ==
    ASSUME BaseInv, Next, NEW c \in Callers, Serving(c)'
    PROVE  /\ job'[c].at = job[c].at
           /\ \/ Serving(c) /\ job'[c].term = job[c].term /\ ~Moves(c)
              \/ Serving(c) /\ job'[c].term = job[c].term /\ SyncDone(c) /\ job'[c].phase = "drive"
              \/ Win(c) /\ job'[c].term = job[c].term /\ Electing(c)
              \/ /\ Redrive(c) \/ TakeSlot(c)
                 /\ Preparing(job[c].at) /\ job'[c].term = term[job[c].at]
                 /\ job'[c].phase = "drive" /\ UNCHANGED <<role, term>>
<1> USE DEF BaseInv
<1>p. job'[c].phase \in {"sync", "drive", "commit"}
    BY DEF Serving
<1>1. CASE job'[c] = job[c]
    BY <1>1, <1>p, MoverMoves DEF Serving
<1>2. ~\E r \in Candidates : RequestLeadership(c, r) \/ StartPropose(c, r)
    BY <1>p, RequestLeadershipEffect, StartProposeEffect
<1>3. ~(AskVote(c) \/ NoVote(c))
    BY <1>p, VoteEffect, AskedEffect DEF GoesOn
<1>4. CASE Win(c)
    BY <1>4, WinEffect DEF SameCall, Electing
<1>5. job'[c] # Idle
    BY <1>p, IdleFields
<1>6. ~Lose(c)
    BY <1>5, EndedEffect DEF Lose
<1>7. ASSUME SameCall(job'[c], job[c]), job[c].phase \in {"sync", "drive", "commit"},
             job'[c].phase # "drive" \/ job[c].phase # "sync"
      PROVE  /\ job'[c].at = job[c].at /\ Serving(c) /\ job'[c].term = job[c].term /\ ~Moves(c)
    <2>1. ~Win(c) /\ ~Redrive(c)
        BY <1>7, WinEffect, RedriveEffect
    <2>2. ~SyncDone(c)
        BY <1>5, <1>7, SyncDoneEffect DEF Driving1
    <2>3. ~TakeSlot(c)
        BY <1>5, <1>7, TakeSlotEffect DEF SameCall
    <2> QED BY <1>2, <1>7, <2>1, <2>2, <2>3 DEF Serving, SameCall, Moves
<1>8. CASE Sync(c)
    BY <1>7, <1>8, SyncEffect
<1>9. CASE SyncDone(c)
    BY <1>5, <1>9, SyncDoneEffect DEF Driving1, SameCall, Serving
<1>10. CASE Redrive(c)
    <2>1. UNCHANGED <<role, term>>
        BY <1>10 DEF Redrive
    <2> QED BY <1>10, <2>1, RedriveEffect DEF Driving1, Preparing
<1>11. CASE TakeSlot(c)
    <2>1. UNCHANGED <<role, term>>
        BY <1>11 DEF TakeSlot
    <2> QED BY <1>5, <1>11, <2>1, TakeSlotEffect DEF Driving1, Preparing
<1>12. CASE AskAccept(c) \/ NoAccept(c)
    <2>1. GoesOn(job'[c], job[c]) /\ job[c].phase = "drive"
        BY <1>12, AcceptEffect, AskedEffect
    <2> QED BY <1>7, <2>1 DEF GoesOn
<1>13. CASE Chosen(c)
    BY <1>7, <1>13, ChosenEffect
<1>14. CASE NotChosen(c)
    BY <1>5, <1>7, <1>14, NotChosenEffect
<1>15. CASE Notify(c) \/ NotifyLost(c)
    BY <1>5, <1>7, <1>15, NotifyEffect
<1>16. ASSUME NEW q \in Replicas, VoteEnds(q)
       PROVE  /\ job'[c].at = job[c].at /\ Serving(c) /\ job'[c].term = job[c].term /\ ~Moves(c)
    <2>1. SameCall(job'[c], job[c]) /\ job'[c].phase = job[c].phase
        BY <1>16, VoteEndsEffect
    <2> QED BY <1>7, <1>p, <2>1
<1> QED BY <1>1, <1>2, <1>3, <1>4, <1>6, <1>8, <1>9, <1>10, <1>11, <1>12, <1>13, <1>14, <1>15, <1>16,
           CallsStep

(* A sync goes on, or begins with a win. *)
LEMMA SyncingStep ==
    ASSUME BaseInv, Next, NEW c \in Callers, job'[c].phase = "sync"
    PROVE  \/ Win(c)
           \/ /\ job[c].phase = "sync" /\ SameCall(job'[c], job[c]) /\ job'[c].yes = job[c].yes
              /\ ~Moves(c)
              /\ Sync(c) \/ (job'[c].merged = job[c].merged /\ job'[c].asked = job[c].asked)
<1> USE DEF BaseInv
<1> SUFFICES ASSUME ~Win(c)
             PROVE  /\ job[c].phase = "sync" /\ SameCall(job'[c], job[c])
                    /\ job'[c].yes = job[c].yes /\ ~Moves(c)
                    /\ Sync(c) \/ (job'[c].merged = job[c].merged /\ job'[c].asked = job[c].asked)
    OBVIOUS
<1>1. ~\E r \in Candidates : RequestLeadership(c, r) \/ StartPropose(c, r)
    BY RequestLeadershipEffect, StartProposeEffect
<1>2. job'[c] # Idle
    BY IdleFields
<1>3. ~SyncDone(c) /\ ~Redrive(c)
    BY <1>2, SyncDoneEffect, RedriveEffect DEF Driving1
<1>4. ~TakeSlot(c)
    BY <1>2, TakeSlotEffect DEF Driving1
<1>5. ~Moves(c)
    BY <1>1, <1>3, <1>4 DEF Moves
<1>6. CASE job'[c] = job[c]
    BY <1>5, <1>6 DEF SameCall
<1>7. CASE Sync(c)
    BY <1>5, <1>7, SyncEffect
<1>8. ~(AskVote(c) \/ NoVote(c))
    BY VoteEffect, AskedEffect DEF GoesOn
<1>9. ~Lose(c)
    BY <1>2, EndedEffect DEF Lose
<1>10. ~(AskAccept(c) \/ NoAccept(c))
    BY AcceptEffect, AskedEffect DEF GoesOn
<1>11. ~Chosen(c) /\ ~NotChosen(c) /\ ~Notify(c) /\ ~NotifyLost(c)
    BY <1>2, ChosenEffect, NotChosenEffect, NotifyEffect DEF Driving1
<1>12. CASE \E q \in Replicas : VoteEnds(q)
    <2>1. /\ SameCall(job'[c], job[c]) /\ job'[c].phase = job[c].phase /\ job'[c].yes = job[c].yes
          /\ job'[c].merged = job[c].merged /\ job'[c].asked = job[c].asked
        BY <1>12, VoteEndsEffect
    <2> QED BY <1>5, <2>1
<1> QED BY <1>1, <1>3, <1>4, <1>6, <1>7, <1>8, <1>9, <1>10, <1>11, <1>12, CallsStep

(* A sync goes on until every replica has been asked. *)
LEMMA SyncStays ==
    ASSUME BaseInv, Next, NEW c \in Callers, job[c].phase = "sync", ~SyncDone(c)
    PROVE  job'[c].phase = "sync" /\ SameCall(job'[c], job[c])
<1> USE DEF BaseInv
<1>1. CASE job'[c] = job[c]
    BY <1>1 DEF SameCall
<1>2. CASE Sync(c)
    BY <1>2, SyncEffect
<1>3. CASE \E q \in Replicas : VoteEnds(q)
    BY <1>3, VoteEndsEffect
<1>4. ~\E r \in Candidates : RequestLeadership(c, r) \/ StartPropose(c, r)
    BY DEF RequestLeadership, StartPropose
<1>5. ~(AskVote(c) \/ NoVote(c)) /\ ~Win(c) /\ ~Lose(c)
    BY VoteEffect, WinEffect DEF Lose, AskedAll
<1>6. ~Redrive(c) /\ ~TakeSlot(c)
    BY RedriveEffect, TakeSlotEffect
<1>7. ~(AskAccept(c) \/ NoAccept(c)) /\ ~Chosen(c) /\ ~NotChosen(c) /\ ~Notify(c) /\ ~NotifyLost(c)
    BY AcceptEffect, ChosenEffect, NotChosenEffect, NotifyEffect
<1> QED BY <1>1, <1>2, <1>3, <1>4, <1>5, <1>6, <1>7, CallsStep

(* An election goes on, or begins. *)
Continues(c) ==
    /\ Electing(c) /\ SameCall(job'[c], job[c]) /\ job'[c].asked >= job[c].asked
    /\ job[c].lapsed => job'[c].lapsed
    /\ \/ job'[c].yes = job[c].yes
       \/ /\ AskVote(c) /\ Next1(c) \in Replicas /\ job'[c].asked = Next1(c)
          /\ job'[c].yes = job[c].yes \cup {Next1(c)}

(* An election whose votes are counted was counting, or begins. *)
LEMMA ElectingStep ==
    ASSUME BaseInv, Next, NEW c \in Callers, Electing(c)'
    PROVE  Continues(c) \/ \E r \in Candidates : RequestLeadership(c, r)
<1> USE DEF BaseInv
<1>p. job'[c].phase = "vote"
    BY DEF Electing
<1>1. CASE job'[c] = job[c]
    BY <1>1, <1>p, TypeFacts DEF Continues, Electing, SameCall
<1>2. ~\E r \in Candidates : StartPropose(c, r)
    BY <1>p, StartProposeEffect
<1>3. CASE AskVote(c) \/ NoVote(c)
    <2>1. /\ (AskVote(c) /\ AskedYes(c)) \/ AskedNo(c)
          /\ job[c].phase = "vote"
        BY <1>3, VoteEffect
    <2>2. /\ GoesOn(job'[c], job[c]) /\ job'[c].asked = job[c].asked + 1
          /\ YesFrom(job'[c], job[c], job'[c].asked)
        BY <2>1, AskedEffect
    <2>3. job[c].asked \in Nat /\ Next1(c) = job[c].asked + 1 /\ Next1(c) \in Replicas
        BY <2>1, TypeFacts DEF Next1, AskedYes, AskedNo
    <2>4. AskVote(c) \/ job'[c].yes = job[c].yes
        BY <2>1, AskedNoEffect
    <2>5. job'[c].asked >= job[c].asked /\ job'[c].asked = Next1(c)
        BY <2>2, <2>3
    <2>6. job'[c].yes = job[c].yes \/ job'[c].yes = job[c].yes \cup {Next1(c)}
        BY <2>2, <2>5 DEF YesFrom
    <2>7. SameCall(job'[c], job[c]) /\ job'[c].lapsed = job[c].lapsed
        BY <2>2 DEF GoesOn
    <2> QED BY <2>1, <2>3, <2>4, <2>5, <2>6, <2>7 DEF Continues, Electing
<1>4. ~Win(c) /\ ~Sync(c)
    BY <1>p, WinEffect, SyncEffect
<1>5. job'[c] # Idle
    BY <1>p, IdleFields
<1>6. ~Lose(c)
    BY <1>5, EndedEffect DEF Lose
<1>7. ~SyncDone(c) /\ ~Redrive(c)
    BY <1>p, <1>5, SyncDoneEffect, RedriveEffect DEF Driving1
<1>8. ~TakeSlot(c)
    BY <1>p, <1>5, TakeSlotEffect DEF Driving1
<1>9. ~(AskAccept(c) \/ NoAccept(c))
    BY <1>p, AcceptEffect, AskedEffect DEF GoesOn
<1>10. ~Chosen(c) /\ ~NotChosen(c)
    BY <1>p, <1>5, ChosenEffect, NotChosenEffect DEF Driving1
<1>11. ~Notify(c) /\ ~NotifyLost(c)
    BY <1>p, <1>5, NotifyEffect DEF Driving1
<1>12. ASSUME NEW q \in Replicas, VoteEnds(q) PROVE Continues(c)
    <2>1. /\ SameCall(job'[c], job[c]) /\ job'[c].phase = job[c].phase /\ job'[c].yes = job[c].yes
          /\ job'[c].asked = job[c].asked /\ (job[c].lapsed => job'[c].lapsed)
        BY <1>12, VoteEndsEffect
    <2> QED BY <1>p, <2>1, TypeFacts DEF Continues, Electing
<1> QED BY <1>1, <1>2, <1>3, <1>4, <1>6, <1>7, <1>8, <1>9, <1>10, <1>11, <1>12, CallsStep

(* Only a win makes a leader and gives it backers. *)
LEMMA BackersStep ==
    ASSUME BaseInv, Next, NEW r \in Replicas
    PROVE  \/ /\ role'[r] = "leader" => role[r] = "leader"
              /\ backers'[r] \in {backers[r], {}}
           \/ \E c \in Callers :
                 /\ Win(c) /\ job[c].at = r /\ Electing(c) /\ IsQuorum(job[c].yes)
                 /\ backers'[r] = IF job[c].lapsed THEN {} ELSE job[c].yes
<1> USE DEF BaseInv, electing
<1> DEFINE Keeps == /\ role'[r] = "leader" => role[r] = "leader"
                    /\ backers'[r] \in {backers[r], {}}
<1>0. CASE UNCHANGED <<role, backers>>
    BY <1>0
<1>1. ASSUME NEW c \in Callers, NEW q \in Candidates, RequestLeadership(c, q) PROVE Keeps
    <2>1. q \in Replicas
        BY <1>1, RequestLeadershipEffect
    <2> QED BY <1>1, <2>1 DEF RequestLeadership, TypeOK
<1>2. ASSUME NEW m \in VoteRequests, Voting(m) PROVE Keeps
    <2>1. /\ role' = IF m.to # m.candidate THEN [role EXCEPT ![m.to] = "follower"] ELSE role
          /\ UNCHANGED backers
        BY <1>2, VotedEffect DEF Voting
    <2>2. role'[r] = "leader" => role[r] = "leader"
        BY <2>1 DEF TypeOK
    <2> QED BY <2>1, <2>2
<1>3. ASSUME NEW c \in Callers, Win(c)
      PROVE  \/ Keeps
             \/ /\ Win(c) /\ job[c].at = r /\ Electing(c) /\ IsQuorum(job[c].yes)
                /\ backers'[r] = IF job[c].lapsed THEN {} ELSE job[c].yes
    <2>1. /\ role' = [role EXCEPT ![job[c].at] = "leader"]
          /\ backers' = [backers EXCEPT ![job[c].at] = IF job[c].lapsed THEN {} ELSE job[c].yes]
          /\ Electing(c) /\ IsQuorum(job[c].yes)
        BY <1>3 DEF Win, AskedAll, Electing
    <2>2. CASE job[c].at = r
        <3>1. backers'[r] = IF job[c].lapsed THEN {} ELSE job[c].yes
            BY <2>1, <2>2 DEF TypeOK
        <3> QED BY <1>3, <2>1, <2>2, <3>1
    <2>3. CASE job[c].at # r
        BY <2>1, <2>3 DEF TypeOK
    <2> QED BY <2>2, <2>3
<1>4. ASSUME NEW c \in Callers, Lose(c) PROVE Keeps
    BY <1>4 DEF Lose, TypeOK
<1>5. ASSUME NEW q \in Replicas, LeaseEnds(q) PROVE Keeps
    BY <1>5 DEF LeaseEnds, TypeOK
<1>6. ASSUME NEW c \in Callers, NEW q \in Candidates, StartPropose(c, q) PROVE UNCHANGED <<role, backers>>
    BY <1>6 DEF StartPropose
<1>7. ASSUME NEW c \in Callers, NoVote(c) \/ Sync(c) \/ SyncDone(c) \/ Redrive(c) \/ TakeSlot(c)
      PROVE  UNCHANGED <<role, backers>>
    BY <1>7 DEF NoVote, Sync, SyncDone, Redrive, TakeSlot
<1>8. ASSUME NEW c \in Callers, AskAccept(c) \/ NoAccept(c) \/ Chosen(c) \/ NotChosen(c)
                                \/ Notify(c) \/ NotifyLost(c)
      PROVE  UNCHANGED <<role, backers>>
    BY <1>8 DEF AskAccept, NoAccept, Chosen, NotChosen, Notify, NotifyLost
<1>9. ASSUME NEW q \in Replicas, VoteEnds(q) PROVE UNCHANGED <<role, backers>>
    BY <1>9 DEF VoteEnds
<1>10. ASSUME NEW m \in late, LateAccept(m) PROVE UNCHANGED <<role, backers>>
    BY <1>10 DEF LateAccept
<1>11. ASSUME NEW c \in Callers, AskVote(c) PROVE Keeps
    BY <1>2, <1>11, VotingStep
<1>12. ASSUME NEW m \in lateVotes, LateVote(m) PROVE Keeps
    BY <1>0, <1>2, <1>12, VotingStep
<1>13. ASSUME NEW m \in lateCommits, LateCommit(m) PROVE UNCHANGED <<role, backers>>
    BY <1>13 DEF LateCommit
<1> HIDE DEF Keeps
<1> QED BY <1>0, <1>1, <1>3, <1>4, <1>5, <1>6, <1>7, <1>8, <1>9, <1>10, <1>11, <1>12, <1>13 DEF Next, Keeps

(* A leader that has its lease is not overtaken while it has it. *)
LEMMA LeaseStep ==
    ASSUME Unique', BaseInv, ElectionInv, Next, NEW r \in Replicas, HasLease(r)'
    PROVE  \/ HasLease(r) /\ term'[r] = term[r] /\ backers'[r] = backers[r]
           \/ \E c \in Callers : /\ Win(c) /\ job[c].at = r /\ Electing(c) /\ ~job[c].lapsed
                                 /\ IsQuorum(job[c].yes) /\ backers'[r] = job[c].yes
<1> USE DEF BaseInv, ElectionInv
<1>1. role'[r] = "leader" /\ backers'[r] # {}
    BY DEF HasLease
<1>2. ASSUME NEW c \in Callers, Win(c), job[c].at = r, Electing(c), IsQuorum(job[c].yes),
             backers'[r] = IF job[c].lapsed THEN {} ELSE job[c].yes
      PROVE  ~job[c].lapsed /\ backers'[r] = job[c].yes
    BY <1>1, <1>2
<1>3. ASSUME role[r] = "leader", backers'[r] \in {backers[r], {}}
      PROVE  HasLease(r) /\ term'[r] = term[r] /\ backers'[r] = backers[r]
    <2>1. HasLease(r) /\ backers'[r] = backers[r]
        BY <1>1, <1>3 DEF HasLease
    <2>2. SUFFICES ASSUME term'[r] # term[r] PROVE FALSE
        BY <2>1
    <2>3. term'[r] > term[r] /\ term[r] \in Nat
        BY <2>2, TermStep, TypeFacts
    <2>4. ASSUME NEW c \in Callers, RequestLeadership(c, r), r \in Candidates PROVE FALSE
        BY <1>1, <2>4 DEF RequestLeadership, TypeOK
    <2>5. ASSUME NEW m \in VoteRequests, Voting(m), m.to = r, term'[r] = m.term PROVE FALSE
        <3>1. ASSUME NEW c \in Callers, AskVote(c), m = AskedVote(c) PROVE m.candidate # r
            <4>1. Electing(c) /\ m.candidate = job[c].at /\ m.term = job[c].term
                BY <3>1 DEF AskVote, Asking, Electing, AskedVote
            <4>2. term[job[c].at] = job[c].term
                BY <4>1 DEF CountInv
            <4> QED BY <2>2, <2>5, <4>1, <4>2
        <3>2. m \in lateVotes => m.candidate # r
            BY <2>5 DEF DelayInv
        <3>3. m.to # m.candidate
            BY <2>5, <3>1, <3>2 DEF Voting
        <3>4. role' = [role EXCEPT ![r] = "follower"]
            BY <2>5, <3>3, VotedEffect DEF Voting
        <3> QED BY <1>1, <3>4 DEF TypeOK
    <2>6. ASSUME NEW m \in Requests, Accepting(m), m.to = r, term'[r] = m.term PROVE FALSE
        <3>1. m.term \in Terms /\ m.slot \in Slots /\ m.value \in Values /\ m.term \in Nat
            BY TypeFacts DEF Requests
        <3>2. Won(m.term)
            BY <2>6, <3>1 DEF Accepting, Won
        <3>3. m.term <= term[r]
            BY <2>1, <3>1, <3>2 DEF LeaseInv
        <3> QED BY <2>3, <2>6, <3>1, <3>3
    <2> QED BY <2>2, <2>4, <2>5, <2>6, TermStep
<1> QED BY <1>1, <1>2, <1>3, BackersStep

(* A replica that leads after a step led in the same term, or has just won it. *)
LEMMA LeadsStep ==
    ASSUME Unique', BaseInv, ElectionInv, Next, NEW r \in Replicas, Leads(r)'
    PROVE  \/ Leads(r) /\ term'[r] = term[r]
           \/ \E c \in Callers : /\ Win(c) /\ job[c].at = r /\ Electing(c)
                                 /\ UNCHANGED term /\ term[r] = job[c].term
<1> USE DEF BaseInv
<1>1. CASE HasLease(r)'
    <2>1. ASSUME NEW c \in Callers, Win(c), job[c].at = r, Electing(c)
          PROVE  UNCHANGED term /\ term[r] = job[c].term
        <3>1. term[r] = job[c].term
            BY <2>1 DEF ElectionInv, CountInv
        <3> QED BY <2>1, <3>1 DEF Win
    <2> QED BY <1>1, <2>1, LeaseStep DEF Leads
<1>2. CASE Preparing(r)'
    <2>1. Preparing(r) \/ (HasLease(r) /\ UNCHANGED <<role, term>>)
        BY <1>2, PreparingStep
    <2>2. Preparing(r) => term'[r] = term[r]
        BY TermStep
    <2> QED BY <2>1, <2>2 DEF Leads
<1> QED BY <1>1, <1>2 DEF Leads

(* A term is won by a Win of that term. *)
LEMMA WonStep ==
    ASSUME Unique', BaseInv, ElectionInv, Next, NEW t \in Terms, Won(t)'
    PROVE  Won(t) \/ \E c \in Callers : Win(c) /\ Electing(c) /\ job[c].term = t
<1> USE DEF BaseInv
<1>1. ASSUME NEW s \in Slots, NEW v \in Values, Known(t, s, v)' PROVE Won(t)
    <2>1. CASE Known(t, s, v)
        BY <2>1 DEF Won
    <2>2. ASSUME NEW c \in Callers, New(c, t, s, v) PROVE Won(t)
        BY <2>2, NewIsWon
    <2> QED BY <1>1, <2>1, <2>2, KnownStep
<1>2. ASSUME NEW c \in Callers, Serving(c)', job'[c].term = t
      PROVE  Won(t) \/ (Win(c) /\ Electing(c) /\ job[c].term = t)
    <2>1. job[c].at \in Replicas
        BY TypeFacts
    <2> QED BY <1>2, <2>1, ServingStep DEF Won, Leads
<1>3. ASSUME NEW r \in Replicas, Leads(r)', term'[r] = t
      PROVE  Won(t) \/ \E c \in Callers : Win(c) /\ Electing(c) /\ job[c].term = t
    BY <1>3, LeadsStep DEF Won
<1> QED BY <1>1, <1>2, <1>3 DEF Won

-----------------------------------------------------------------------------
(* The election invariant *)

(* Every step keeps TermInv: a quorum has reached each term that was won. *)
LEMMA TermInvStep ==
    ASSUME Unique', BaseInv, ElectionInv, Next
    PROVE  TermInv'
<1> USE DEF BaseInv
<1>0. TermInv /\ CountInv /\ BackInv
    BY DEF ElectionInv
<1>1. ASSUME NEW t \in Terms, Won(t)' PROVE t \in used' /\ t > 0 /\ IsQuorum(Reached(t)')
    <2>1. t \in used /\ t > 0 /\ IsQuorum(Reached(t))
        <3>1. CASE Won(t)
            BY <1>0, <3>1 DEF TermInv
        <3>2. ASSUME NEW c \in Callers, Win(c), Electing(c), job[c].term = t
              PROVE  t \in used /\ t > 0 /\ IsQuorum(Reached(t))
            <4>1. t \in used /\ t > 0
                BY <1>0, <3>2 DEF CountInv
            <4>2. IsQuorum(job[c].yes) /\ job[c].yes \in SUBSET Replicas
                BY <3>2 DEF Win, TypeOK, Job
            <4>3. job[c].yes \subseteq Reached(t)
                BY <1>0, <3>2, <4>2 DEF BackInv, Asks, Electing, Reached
            <4>4. Reached(t) \in SUBSET Replicas
                BY DEF Reached
            <4> QED BY <4>1, <4>2, <4>3, <4>4, QuorumGrows
        <3> QED BY <1>1, <3>1, <3>2, WonStep
    <2>2. \A q \in Replicas : term[q] >= t => term'[q] >= t
        <3>1. TAKE q \in Replicas
        <3>2. term'[q] >= term[q] /\ term'[q] \in Nat /\ term[q] \in Nat /\ t \in Nat
            BY TermGrows, TypeFacts
        <3> QED BY <3>2
    <2>3. Reached(t) \subseteq Reached(t)' /\ Reached(t)' \in SUBSET Replicas
        BY <2>2 DEF Reached
    <2>4. Reached(t) \in SUBSET Reached(t)'
        BY <2>3
    <2>5. IsQuorum(Reached(t)')
        BY <2>1, <2>3, <2>4, QuorumGrows
    <2> QED BY <2>1, <2>5, HistoryGrows
<1>2. ASSUME NEW q \in Replicas, NEW s \in Slots PROVE log'[q][s].term <= term'[q]
    <2>1. term'[q] >= term[q] /\ term'[q] \in Nat /\ term[q] \in Nat /\ log[q][s].term \in Nat
        BY TermGrows, TypeFacts
    <2>2. log[q][s].term <= term[q]
        BY <1>0 DEF TermInv
    <2>3. CASE log'[q][s] = log[q][s]
        BY <2>1, <2>2, <2>3
    <2>4. CASE log'[q][s] # log[q][s]
        <3>1. PICK m \in Requests :
                  term'[q] = m.term /\ log'[q][s] = [term |-> m.term, value |-> m.value]
            BY <2>4, LogStep
        <3>2. log'[q][s].term = term'[q]
            BY <3>1
        <3> QED BY <2>1, <3>2
    <2> QED BY <2>3, <2>4
<1>3. ASSUME NEW r \in Replicas, NEW c \in Callers, Preparing(r)', job'[c].at = r
      PROVE  job'[c].calls # "election"
    <2>0. JobOK(job[c]) /\ JobOK(job'[c])
        BY JobInvStep DEF JobInv
    <2>1. /\ Preparing(r) \/ HasLease(r)
          /\ job[c].at = r => job[c].calls # "election"
        BY <1>0, <1>3, PreparingStep DEF TermInv, Unique, UniqueConditions
    <2>2. CASE SameCall(job'[c], job[c])
        BY <1>3, <2>1, <2>2 DEF SameCall
    <2>3. CASE job'[c] = Idle
        BY <2>3, IdleFields
    <2>4. ASSUME NEW q \in Candidates, RequestLeadership(c, q) PROVE FALSE
        <3>1. q = r /\ q \in Replicas
            BY <1>3, <2>4, RequestLeadershipEffect
        <3>2. ~Preparing(r) /\ ~(HasLease(r) /\ UNCHANGED <<role, term>>)
            <4>1. term' = [term EXCEPT ![r] = term[r] + 1]
                BY <2>4, <3>1 DEF RequestLeadership
            <4>2. term'[r] = term[r] + 1 /\ term[r] \in Nat
                BY <3>1, <4>1, TypeFacts DEF TypeOK
            <4>3. term'[r] # term[r]
                BY <4>2
            <4>4. ~Preparing(r)
                BY <3>1, <4>3, TermStep
            <4> QED BY <4>3, <4>4
        <3> QED BY <1>3, <3>2, PreparingStep
    <2>5. CASE job'[c] # Idle /\ ~SameCall(job'[c], job[c])
        <3>1. job'[c] # job[c]
            BY <2>5 DEF SameCall
        <3>2. ~(AskVote(c) \/ NoVote(c))
            BY <2>5, VoteEffect, AskedEffect DEF GoesOn
        <3>3. ~Win(c) /\ ~Sync(c) /\ ~SyncDone(c)
            BY <2>5, WinEffect, SyncEffect, SyncDoneEffect
        <3>4. ~Lose(c)
            BY <2>5, EndedEffect DEF Lose
        <3>5. ASSUME Redrive(c) PROVE job'[c].calls # "election"
            BY <2>0, <3>5, RedriveEffect DEF JobOK
        <3>6. ASSUME TakeSlot(c) PROVE job'[c].calls # "election"
            BY <2>0, <2>5, <3>6, TakeSlotEffect DEF JobOK
        <3>7. ~(AskAccept(c) \/ NoAccept(c))
            BY <2>5, AcceptEffect, AskedEffect DEF GoesOn
        <3>8. ~Chosen(c) /\ ~NotChosen(c) /\ ~Notify(c) /\ ~NotifyLost(c)
            BY <2>5, ChosenEffect, NotChosenEffect, NotifyEffect
        <3>9. ~\E q \in Replicas : VoteEnds(q)
            BY <2>5, VoteEndsEffect
        <3>10. ASSUME NEW q \in Candidates, StartPropose(c, q) PROVE job'[c].calls # "election"
            BY <3>10, StartProposeEffect
        <3> QED BY <2>4, <3>1, <3>2, <3>3, <3>4, <3>5, <3>6, <3>7, <3>8, <3>9, <3>10, CallsStep
    <2> QED BY <2>2, <2>3, <2>5
<1> QED BY <1>1, <1>2, <1>3 DEF TermInv

(* What request_leadership starts with. *)
LEMMA Starts ==
    ASSUME Unique', BaseInv, ElectionInv, NEW c \in Callers, NEW r \in Candidates,
           RequestLeadership(c, r)
    PROVE  /\ r \in Replicas /\ job'[c].at = r /\ job'[c].term = term[r] + 1
           /\ term[r] + 1 \in Terms /\ term[r] + 1 \notin used /\ term[r] + 1 \in used'
           /\ ~Won(term[r] + 1) /\ ~Counting(r) /\ ~Preparing(r) /\ Moves(c) /\ Others(c)
           /\ role'[r] = "candidate" /\ term'[r] = term[r] + 1
           /\ \A q \in Replicas \ {r} : role'[q] = role[q] /\ term'[q] = term[q]
           /\ UNCHANGED <<vote, backers, log, nextSlot>>
           /\ job'[c].yes = {} /\ job'[c].asked = 0 /\ job'[c].phase = "vote"
<1> USE DEF BaseInv
<1>1. /\ r \in Replicas /\ job'[c].at = r /\ job'[c].term = term[r] + 1
      /\ term[r] + 1 \in Terms /\ Others(c) /\ term[r] \in Terms
      /\ job'[c].yes = {} /\ job'[c].asked = 0 /\ job'[c].phase = "vote"
    BY RequestLeadershipEffect DEF TypeOK
<1>2. /\ role' = [role EXCEPT ![r] = "candidate"] /\ term' = [term EXCEPT ![r] = term[r] + 1]
      /\ used' = used \cup {term'[r]}
      /\ UNCHANGED <<vote, backers, log, nextSlot>>
    BY DEF RequestLeadership, electing, logging
<1>3. /\ role'[r] = "candidate" /\ term'[r] = term[r] + 1
      /\ \A q \in Replicas \ {r} : role'[q] = role[q] /\ term'[q] = term[q]
    BY <1>1, <1>2 DEF TypeOK
<1>4. "own terms" \in kept' /\ "term stands" \in kept'
    BY DEF Unique, UniqueConditions
<1>r. term[r] + 1 > term[r]
    BY <1>1, TypeFacts
<1>5. term[r] + 1 \notin used /\ ~Counting(r) /\ ~Preparing(r)
    BY <1>4, <1>r DEF RequestLeadership, Keep, Broken, Raised
<1>6. ~Won(term[r] + 1)
    BY <1>1, <1>5 DEF ElectionInv, TermInv
<1>7. Moves(c)
    BY DEF Moves
<1> QED BY <1>1, <1>2, <1>3, <1>5, <1>6, <1>7

(* While its votes are counted, an election keeps its replica a candidate. *)
LEMMA CountedStays ==
    ASSUME Unique', BaseInv, ElectionInv, Next, NEW c \in Callers, Electing(c), Electing(c)'
    PROVE  role'[job[c].at] = "candidate" /\ term'[job[c].at] = term[job[c].at]
<1> USE DEF BaseInv
<1> DEFINE r == job[c].at
<1>0. /\ r \in Replicas /\ Counting(r) /\ role[r] = "candidate" /\ term[r] = job[c].term
      /\ \A d \in Callers : Electing(d) /\ c # d => job[d].at # r /\ job[d].term # job[c].term
    BY TypeFacts DEF Counting, Electing, ElectionInv, CountInv
<1>1. term'[r] = term[r]
    BY <1>0, TermStep
<1> USE DEF electing
<1>2. CASE UNCHANGED role
    BY <1>0, <1>1, <1>2
<1>3. ASSUME NEW d \in Callers, NEW q \in Candidates, RequestLeadership(d, q)
      PROVE  role'[r] = role[r]
    <2>1. q # r
        BY <1>0, <1>3, Starts
    <2> QED BY <1>0, <1>3, <2>1, Starts
<1>4. ASSUME NEW m \in VoteRequests, Voting(m) PROVE role'[r] = role[r]
    <2>1. role' = IF m.to # m.candidate THEN [role EXCEPT ![m.to] = "follower"] ELSE role
        BY <1>4, VotedEffect DEF Voting
    <2>2. SUFFICES ASSUME m.to = r, m.candidate # r PROVE FALSE
        BY <2>1 DEF TypeOK
    <2>3. m.term = job[c].term
        BY <1>0, <1>1, <1>4, <2>2, VotedEffect DEF Voting
    <2>4. m \notin lateVotes
        BY <2>2, <2>3 DEF ElectionInv, DelayInv
    <2>5. PICK d \in Callers : AskVote(d) /\ m = AskedVote(d)
        BY <1>4, <2>4 DEF Voting
    <2>6. Electing(d) /\ job[d].at # r /\ job[d].term = job[c].term
        BY <2>2, <2>3, <2>5 DEF AskVote, Asking, Electing, AskedVote
    <2> QED BY <1>0, <2>6
<1>5. ASSUME NEW d \in Callers, Win(d) \/ Lose(d) PROVE role'[r] = role[r]
    <2>1. Electing(d)
        BY <1>5 DEF Win, Lose, AskedAll, Electing
    <2>2. c # d
        <3>1. job'[d].phase # "vote"
            BY <1>5, WinEffect, EndedEffect, IdleFields DEF Lose
        <3> QED BY <3>1 DEF Electing
    <2> QED BY <1>0, <1>5, <2>1, <2>2 DEF Win, Lose, TypeOK
<1>6. ASSUME NEW d \in Callers, NEW q \in Candidates, StartPropose(d, q) PROVE UNCHANGED role
    BY <1>6 DEF StartPropose
<1>7. ASSUME NEW d \in Callers, NoVote(d) \/ Sync(d) \/ SyncDone(d) \/ Redrive(d) \/ TakeSlot(d)
      PROVE  UNCHANGED role
    BY <1>7 DEF NoVote, Sync, SyncDone, Redrive, TakeSlot
<1>8. ASSUME NEW d \in Callers, AskAccept(d) \/ NoAccept(d) \/ Chosen(d) \/ NotChosen(d)
                                \/ Notify(d) \/ NotifyLost(d)
      PROVE  UNCHANGED role
    BY <1>8 DEF AskAccept, NoAccept, Chosen, NotChosen, Notify, NotifyLost
<1>9. ASSUME NEW q \in Replicas, LeaseEnds(q) \/ VoteEnds(q) PROVE UNCHANGED role
    BY <1>9 DEF LeaseEnds, VoteEnds
<1>10. ASSUME NEW m \in late, LateAccept(m) PROVE UNCHANGED role
    BY <1>10 DEF LateAccept
<1>12. ASSUME NEW d \in Callers, AskVote(d) PROVE role'[r] = role[r]
    BY <1>4, <1>12, VotingStep
<1>13. ASSUME NEW m \in lateVotes, LateVote(m) PROVE role'[r] = role[r]
    BY <1>4, <1>13, VotingStep
<1>14. ASSUME NEW m \in lateCommits, LateCommit(m) PROVE UNCHANGED role
    BY <1>14 DEF LateCommit
<1>11. role'[r] = role[r]
    BY <1>2, <1>3, <1>5, <1>6, <1>7, <1>8, <1>9, <1>10, <1>12, <1>13, <1>14 DEF Next
<1> QED BY <1>0, <1>1, <1>11

(* Every step keeps CountInv: no term being voted on is in use. *)
LEMMA CountInvStep ==
    ASSUME Unique', BaseInv, ElectionInv, Next
    PROVE  CountInv'
<1> USE DEF BaseInv
<1>0. CountInv /\ TermInv
    BY DEF ElectionInv
<1>1. ASSUME NEW c \in Callers, Electing(c)'
      PROVE  /\ job'[c].term \in used' /\ job'[c].term > 0 /\ ~Won(job[c].term)'
             /\ role'[job'[c].at] = "candidate" /\ term'[job'[c].at] = job'[c].term
    <2>0. PICK t : t = job'[c].term
        OBVIOUS
    <2>t. t \in Terms /\ t \in Nat
        <3>1. TypeOK'
            BY TypeStep
        <3> QED BY <2>0, <3>1, TypeFacts DEF TypeOK, Job
    <2>1. CASE Continues(c)
        <3>1. Electing(c) /\ job[c].term = t /\ job'[c].at = job[c].at
            BY <2>0, <2>1 DEF Continues, SameCall
        <3>2. /\ t \in used /\ t > 0 /\ ~Won(t) /\ term[job[c].at] = t
            BY <1>0, <3>1 DEF CountInv
        <3>3. role'[job[c].at] = "candidate" /\ term'[job[c].at] = term[job[c].at]
            BY <1>1, <3>1, CountedStays
        <3>4. ~Won(t)'
            <4>1. ASSUME NEW d \in Callers, Win(d), Electing(d), job[d].term = t PROVE FALSE
                <5>1. c = d
                    BY <1>0, <3>1, <4>1 DEF CountInv
                <5>2. job'[c].phase = "sync"
                    BY <4>1, <5>1, WinEffect
                <5> QED BY <1>1, <5>2 DEF Electing
            <4> QED BY <2>t, <3>2, <4>1, WonStep
        <3> QED BY <2>0, <3>1, <3>2, <3>3, <3>4, HistoryGrows
    <2>2. ASSUME NEW r \in Candidates, RequestLeadership(c, r)
          PROVE  /\ t \in used' /\ t > 0 /\ ~Won(t)'
                 /\ role'[job'[c].at] = "candidate" /\ term'[job'[c].at] = t
        <3>1. /\ job'[c].at = r /\ t = term[r] + 1 /\ t \notin used /\ t \in used' /\ ~Won(t)
              /\ role'[r] = "candidate" /\ term'[r] = t /\ r \in Replicas
            BY <2>0, <2>2, Starts
        <3>2. t > 0
            BY <2>t, <3>1, TypeFacts
        <3>3. ~Won(t)'
            <4>1. ASSUME NEW d \in Callers, Win(d), Electing(d), job[d].term = t PROVE FALSE
                BY <1>0, <3>1, <4>1 DEF CountInv
            <4> QED BY <2>t, <3>1, <4>1, WonStep
        <3> QED BY <3>1, <3>2, <3>3
    <2>3. /\ t \in used' /\ t > 0 /\ ~Won(t)'
          /\ role'[job'[c].at] = "candidate" /\ term'[job'[c].at] = t
        BY <1>1, <2>0, <2>1, <2>2, ElectingStep
    <2> QED BY <2>0, <2>3
<1>2. ASSUME NEW c \in Callers, NEW d \in Callers, c # d, Electing(c)', Electing(d)',
             NEW r \in Candidates, RequestLeadership(c, r)
      PROVE  job'[c].at # job'[d].at /\ job'[c].term # job'[d].term
    <2>1. job'[d] = job[d] /\ Electing(d)
        BY <1>2, Starts DEF Others, Electing
    <2>2. job'[c].at = r /\ ~Counting(r) /\ job'[c].term \notin used
        BY <1>2, Starts
    <2>3. job[d].term \in used /\ job[d].at # r
        BY <1>0, <2>1, <2>2 DEF CountInv, Counting, Electing
    <2> QED BY <2>1, <2>2, <2>3
<1>3. ASSUME NEW c \in Callers, NEW d \in Callers, c # d, Electing(c)', Electing(d)'
      PROVE  job'[c].at # job'[d].at /\ job'[c].term # job'[d].term
    <2>1. CASE Continues(c) /\ Continues(d)
        BY <1>0, <1>3, <2>1 DEF Continues, SameCall, CountInv
    <2>2. CASE \E r \in Candidates : RequestLeadership(c, r)
        BY <1>2, <1>3, <2>2
    <2>3. CASE \E r \in Candidates : RequestLeadership(d, r)
        BY <1>2, <1>3, <2>3
    <2> QED BY <1>3, <2>1, <2>2, <2>3, ElectingStep
<1> QED BY <1>1, <1>3 DEF CountInv

(* A vote that waits was waiting, or its sender has just given up. *)
LEMMA LateVotesStep ==
    ASSUME TypeOK, Next, NEW m \in lateVotes'
    PROVE  \/ m \in lateVotes
           \/ \E c \in Callers : Electing(c) /\ m = AskedVote(c) /\ Next1(c) # job[c].at
<1> USE DEF lates
<1>1. ASSUME NEW c \in Callers, NoVote(c), m \notin lateVotes
      PROVE  Electing(c) /\ m = AskedVote(c) /\ Next1(c) # job[c].at
    BY <1>1 DEF NoVote, Waiting, AskedVote, MayFail, Asking, Electing
<1>2. ASSUME NEW c \in Callers, NEW r \in Candidates, RequestLeadership(c, r) \/ StartPropose(c, r)
      PROVE  UNCHANGED lateVotes
    BY <1>2 DEF RequestLeadership, StartPropose
<1>3. ASSUME NEW c \in Callers, AskVote(c) \/ Win(c) \/ Lose(c) \/ Sync(c) \/ SyncDone(c)
                                \/ Redrive(c) \/ TakeSlot(c)
      PROVE  UNCHANGED lateVotes
    BY <1>3 DEF AskVote, Win, Lose, Sync, SyncDone, Redrive, TakeSlot
<1>4. ASSUME NEW c \in Callers, AskAccept(c) \/ NoAccept(c) \/ Chosen(c) \/ NotChosen(c)
                                \/ Notify(c) \/ NotifyLost(c)
      PROVE  UNCHANGED lateVotes
    BY <1>4 DEF AskAccept, NoAccept, Chosen, NotChosen, Notify, NotifyLost
<1>5. ASSUME NEW r \in Replicas, LeaseEnds(r) \/ VoteEnds(r) PROVE UNCHANGED lateVotes
    BY <1>5 DEF LeaseEnds, VoteEnds
<1>6. ASSUME NEW l \in lateVotes, LateVote(l) PROVE m \in lateVotes
    BY <1>6 DEF LateVote
<1>7. ASSUME NEW l \in late, LateAccept(l) PROVE UNCHANGED lateVotes
    BY <1>7 DEF LateAccept
<1>8. ASSUME NEW l \in lateCommits, LateCommit(l) PROVE UNCHANGED lateVotes
    BY <1>8 DEF LateCommit
<1> QED BY <1>1, <1>2, <1>3, <1>4, <1>5, <1>6, <1>7, <1>8 DEF Next

(* Every step keeps DelayInv: late votes are not about the election of another. *)
LEMMA DelayInvStep ==
    ASSUME Unique', BaseInv, ElectionInv, Next
    PROVE  DelayInv'
<1> USE DEF BaseInv
<1> SUFFICES ASSUME NEW m \in lateVotes'
             PROVE  /\ m.to # m.candidate /\ m.term \in used'
                    /\ \A c \in Callers :
                          Electing(c)' /\ job'[c].term = m.term => job'[c].at = m.candidate
    BY DEF DelayInv
<1>1. /\ m.to # m.candidate /\ m.term \in used
      /\ \A c \in Callers : Electing(c) /\ job[c].term = m.term => job[c].at = m.candidate
    <2>1. CASE m \in lateVotes
        BY <2>1 DEF ElectionInv, DelayInv
    <2>2. ASSUME NEW c \in Callers, Electing(c), m = AskedVote(c), Next1(c) # job[c].at
          PROVE  /\ m.to # m.candidate /\ m.term \in used
                 /\ \A d \in Callers : Electing(d) /\ job[d].term = m.term => job[d].at = m.candidate
        <3>1. m.to = Next1(c) /\ m.candidate = job[c].at /\ m.term = job[c].term
            BY <2>2 DEF AskedVote
        <3> QED BY <2>2, <3>1 DEF ElectionInv, CountInv
    <2> QED BY <2>1, <2>2, LateVotesStep
<1>2. ASSUME NEW c \in Callers, Electing(c)', job'[c].term = m.term PROVE job'[c].at = m.candidate
    <2>1. ~\E r \in Candidates : RequestLeadership(c, r)
        BY <1>1, <1>2, Starts
    <2>2. Continues(c)
        BY <1>2, <2>1, ElectingStep
    <2> QED BY <1>1, <1>2, <2>2 DEF Continues, SameCall
<1> QED BY <1>1, <1>2, HistoryGrows

(* A win is of an election whose term nobody had won. *)
LEMMA Wins ==
    ASSUME BaseInv, ElectionInv, NEW c \in Callers, Win(c)
    PROVE  /\ Electing(c) /\ Moves(c) /\ ~Won(job[c].term) /\ job[c].term \in Terms
           /\ job[c].at \in Replicas /\ term[job[c].at] = job[c].term
           /\ job'[c].at = job[c].at /\ job'[c].term = job[c].term /\ job'[c].phase = "sync"
           /\ job'[c].yes = job[c].yes /\ job'[c].asked = 0 /\ job'[c].merged = EmptyLog
           /\ job[c].yes \in SUBSET Replicas /\ IsQuorum(job[c].yes)
           /\ \A v \in job[c].yes : term[v] >= job[c].term
           /\ UNCHANGED <<term, vote, log, nextSlot, used>>
<1> USE DEF BaseInv
<1>1. /\ job'[c].at = job[c].at /\ job'[c].term = job[c].term /\ job'[c].phase = "sync"
      /\ job'[c].yes = job[c].yes /\ job'[c].asked = 0 /\ job'[c].merged = job[c].merged
      /\ job[c].phase = "vote"
    BY WinEffect DEF SameCall
<1>2. job[c].merged = EmptyLog
    BY <1>1 DEF JobInv, JobOK
<1>3. Electing(c) /\ ~Won(job[c].term) /\ term[job[c].at] = job[c].term
    BY <1>1 DEF Electing, ElectionInv, CountInv
<1>4. job[c].term \in Terms /\ job[c].at \in Replicas /\ job[c].yes \in SUBSET Replicas
    BY DEF TypeOK, Job
<1>5. IsQuorum(job[c].yes) /\ UNCHANGED <<term, vote, log, nextSlot, used>>
    BY DEF Win, logging, history
<1>6. \A v \in job[c].yes : term[v] >= job[c].term
    BY <1>3 DEF ElectionInv, BackInv, Asks, Electing
<1> QED BY <1>1, <1>2, <1>3, <1>4, <1>5, <1>6 DEF Moves

(* The replica of a call that prepares is not synced by another. *)
LEMMA PreparesAlone ==
    ASSUME BaseInv, TermInv, NEW r \in Replicas, Preparing(r), NEW c \in Callers, job[c].at = r
    PROVE  job[c].calls # "election" /\ job[c].phase # "sync"
<1>1. job[c].calls # "election"
    BY DEF TermInv
<1>2. JobOK(job[c])
    BY DEF BaseInv, JobInv
<1> QED BY <1>1, <1>2 DEF JobOK

(* Every step keeps OwnInv: a term belongs to one replica. *)
LEMMA OwnInvStep ==
    ASSUME Unique', BaseInv, ElectionInv, Next
    PROVE  OwnInv'
<1> USE DEF BaseInv
<1>0. OwnInv /\ TermInv /\ CountInv
    BY DEF ElectionInv
<1>a. ASSUME NEW c \in Callers, Preparing(job[c].at) PROVE Leads(job[c].at) /\ job[c].at \in Replicas
    BY <1>a, TypeFacts DEF Leads
<1>1. ASSUME NEW r \in Replicas, NEW q \in Replicas, Leads(r), term'[r] = term[r],
             NEW c \in Callers, Win(c), job[c].at = q, term'[q] = term'[r]
      PROVE  FALSE
    <2>1. term[r] = job[c].term /\ ~Won(job[c].term)
        BY <1>1, Wins
    <2> QED BY <1>1, <2>1 DEF Won
<1>2. ASSUME NEW r \in Replicas, NEW q \in Replicas, Leads(r)', Leads(q)', term'[r] = term'[q]
      PROVE  r = q
    <2>1. CASE Leads(r) /\ term'[r] = term[r] /\ Leads(q) /\ term'[q] = term[q]
        BY <1>0, <1>2, <2>1 DEF OwnInv
    <2>2. ASSUME NEW c \in Callers, NEW d \in Callers, Win(c), Win(d), job[c].at = r, job[d].at = q
          PROVE  r = q
        <3>1. c = d
            BY <2>2, OneMover, Wins
        <3> QED BY <2>2, <3>1
    <2> QED BY <1>1, <1>2, <2>1, <2>2, LeadsStep
<1>3. ASSUME NEW r \in Replicas, NEW c \in Callers, Leads(r)', Serving(c)', job'[c].term = term'[r]
      PROVE  job'[c].at = r
    <2>1. /\ job'[c].at = job[c].at /\ job[c].at \in Replicas
          /\ \/ Serving(c) /\ job'[c].term = job[c].term
             \/ Win(c) /\ job'[c].term = job[c].term
             \/ Preparing(job[c].at) /\ job'[c].term = term[job[c].at]
        BY <1>3, ServingStep, TypeFacts
    <2>2. CASE Leads(r) /\ term'[r] = term[r]
        <3>1. CASE Serving(c) /\ job'[c].term = job[c].term
            BY <1>0, <1>3, <2>1, <2>2, <3>1 DEF OwnInv
        <3>2. CASE Win(c)
            BY <1>3, <2>1, <2>2, <3>2, Wins DEF Won
        <3>3. CASE Preparing(job[c].at) /\ job'[c].term = term[job[c].at]
            BY <1>0, <1>a, <1>3, <2>1, <2>2, <3>3 DEF OwnInv
        <3> QED BY <2>1, <3>1, <3>2, <3>3
    <2>3. ASSUME NEW d \in Callers, Win(d), job[d].at = r, UNCHANGED term, term[r] = job[d].term
          PROVE  job'[c].at = r
        <3>1. ~Won(job[d].term) /\ job'[c].term = job[d].term
            BY <1>3, <2>3, Wins
        <3>2. CASE Serving(c) /\ job'[c].term = job[c].term
            BY <3>1, <3>2 DEF Won
        <3>3. CASE Win(c)
            BY <2>1, <2>3, <3>3, OneMover DEF Moves
        <3>4. CASE Preparing(job[c].at) /\ job'[c].term = term[job[c].at]
            BY <1>a, <3>1, <3>4 DEF Won
        <3> QED BY <2>1, <3>2, <3>3, <3>4
    <2> QED BY <1>3, <2>2, <2>3, LeadsStep
<1>4. ASSUME NEW c \in Callers, job'[c].phase = "sync"
      PROVE  /\ \A s \in Slots, v \in Values : ~Known(job[c].term, s, v)'
             /\ \A d \in Callers : Serving(d)' /\ job'[d].term = job'[c].term => c = d
    <2>0. PICK t \in Terms : t = job'[c].term
        BY TypeStep DEF TypeOK, Job
    <2>1. \/ Serving(c) /\ job[c].phase = "sync" /\ t = job[c].term /\ ~Moves(c)
          \/ Win(c) /\ t = job[c].term
        BY <1>4, <2>0, SyncingStep, Wins DEF Serving, SameCall
    <2>2. Win(c) => ~Won(t)
        BY <2>1, Wins
    <2>3. ASSUME NEW d \in Callers, Preparing(job[d].at), term[job[d].at] = t PROVE FALSE
        <3>1. Leads(job[d].at) /\ job[d].at \in Replicas
            BY <1>a, <2>3
        <3>2. CASE Win(c)
            BY <2>2, <2>3, <3>1, <3>2 DEF Won
        <3>3. CASE Serving(c) /\ job[c].phase = "sync" /\ t = job[c].term
            <4>1. job[c].at = job[d].at
                BY <1>0, <2>3, <3>1, <3>3 DEF OwnInv
            <4> QED BY <1>0, <2>3, <3>1, <3>3, <4>1, PreparesAlone
        <3> QED BY <2>1, <3>2, <3>3
    <2>4. ASSUME NEW s \in Slots, NEW v \in Values, Known(t, s, v)' PROVE FALSE
        <3>1. CASE Known(t, s, v)
            <4>1. CASE Win(c)
                BY <2>2, <3>1, <4>1 DEF Won
            <4>2. CASE job[c].phase = "sync" /\ t = job[c].term
                BY <1>0, <3>1, <4>2 DEF OwnInv
            <4> QED BY <2>1, <4>1, <4>2
        <3>2. ASSUME NEW d \in Callers, New(d, t, s, v) PROVE FALSE
            <4>1. Moves(d) /\ Won(t)
                BY <3>2, NewIsWon
            <4>2. CASE SyncDone(d) /\ job[d].phase = "sync" /\ t = job[d].term
                <5>1. ~Win(c)
                    BY <2>2, <4>1
                <5>2. c = d
                    BY <1>0, <2>1, <4>2, <5>1 DEF OwnInv, Serving
                <5> QED BY <2>1, <4>1, <5>1, <5>2
            <4>3. CASE Preparing(job[d].at) /\ t = term[job[d].at]
                BY <2>3, <4>3
            <4> QED BY <3>2, <4>2, <4>3, NewIsWon
        <3> QED BY <2>4, <3>1, <3>2, KnownStep
    <2>5. ASSUME NEW d \in Callers, Serving(d)', job'[d].term = t PROVE c = d
        <3>1. CASE Serving(d) /\ job'[d].term = job[d].term
            <4>1. CASE Win(c)
                BY <2>2, <2>5, <3>1, <4>1 DEF Won
            <4>2. CASE job[c].phase = "sync" /\ t = job[c].term
                BY <1>0, <2>5, <3>1, <4>2 DEF OwnInv
            <4> QED BY <2>1, <4>1, <4>2
        <3>2. CASE Win(d) /\ job'[d].term = job[d].term
            <4>1. CASE Win(c)
                BY <3>2, <4>1, OneMover DEF Moves
            <4>2. CASE Serving(c) /\ t = job[c].term
                <5>1. ~Won(t)
                    BY <2>5, <3>2, Wins
                <5> QED BY <4>2, <5>1 DEF Won
            <4> QED BY <2>1, <4>1, <4>2
        <3>3. CASE Preparing(job[d].at) /\ job'[d].term = term[job[d].at]
            BY <2>3, <2>5, <3>3
        <3> QED BY <2>5, <3>1, <3>2, <3>3, ServingStep
    <2> QED BY <2>0, <2>4, <2>5
<1> QED BY <1>2, <1>3, <1>4 DEF OwnInv

(* What a granted vote does to its voter. *)
LEMMA AskVoteEffect ==
    ASSUME TypeOK, NEW c \in Callers, AskVote(c)
    PROVE  LET q == Next1(c) IN
           /\ q \in Replicas /\ Electing(c) /\ Others(c)
           /\ job[c].term >= term[q] /\ vote[q] \in {0, job[c].at}
           /\ term'[q] = job[c].term /\ vote'[q] = job[c].at
           /\ \A p \in Replicas \ {q} : vote'[p] = vote[p]
           /\ UNCHANGED <<backers, log, nextSlot>>
<1>1. Next1(c) \in Replicas /\ Electing(c) /\ Others(c)
    BY VoteEffect DEF AskedYes, AskedNo, Electing
<1>2. AskedVote(c) \in VoteRequests /\ Voting(AskedVote(c))
    BY VotingStep
<1>3. /\ AskedVote(c).to = Next1(c) /\ AskedVote(c).candidate = job[c].at
      /\ AskedVote(c).term = job[c].term
    BY DEF AskedVote
<1>4. Vote(AskedVote(c).to, AskedVote(c).candidate, AskedVote(c).term)
      /\ UNCHANGED <<backers, log, nextSlot>>
    BY <1>2 DEF Voting
<1>5. /\ AskedVote(c).term >= term[Next1(c)] /\ vote[Next1(c)] \in {0, AskedVote(c).candidate}
      /\ term'[Next1(c)] = AskedVote(c).term /\ vote'[Next1(c)] = AskedVote(c).candidate
      /\ \A p \in Replicas \ {Next1(c)} : vote'[p] = vote[p]
    BY <1>2, <1>3, <1>4, VotedEffect
<1> QED BY <1>1, <1>3, <1>4, <1>5

(* Who has a vote for one candidate gives no other a vote until it ends. *)
LEMMA VoteStep ==
    ASSUME BaseInv, Next, NEW v \in Replicas
    PROVE  \/ vote'[v] = vote[v]
           \/ vote[v] = 0
           \/ VoteEnds(v)
<1> USE DEF BaseInv, electing
<1>1. ASSUME NEW m \in VoteRequests, Voting(m) PROVE vote'[v] = vote[v] \/ vote[v] = 0
    BY <1>1, VotedEffect DEF Voting, VoteRequests
<1>2. ASSUME NEW q \in Replicas, VoteEnds(q) PROVE vote'[v] = vote[v] \/ VoteEnds(v)
    BY <1>2 DEF VoteEnds, TypeOK
<1>3. ASSUME NEW c \in Callers, NEW r \in Candidates, RequestLeadership(c, r) \/ StartPropose(c, r)
      PROVE  UNCHANGED vote
    BY <1>3 DEF RequestLeadership, StartPropose
<1>4. ASSUME NEW c \in Callers, NoVote(c) \/ Win(c) \/ Lose(c) \/ Sync(c) \/ SyncDone(c)
                                \/ Redrive(c) \/ TakeSlot(c)
      PROVE  UNCHANGED vote
    BY <1>4 DEF NoVote, Win, Lose, Sync, SyncDone, Redrive, TakeSlot
<1>5. ASSUME NEW c \in Callers, AskAccept(c) \/ NoAccept(c) \/ Chosen(c) \/ NotChosen(c)
                                \/ Notify(c) \/ NotifyLost(c)
      PROVE  UNCHANGED vote
    BY <1>5 DEF AskAccept, NoAccept, Chosen, NotChosen, Notify, NotifyLost
<1>6. ASSUME NEW q \in Replicas, LeaseEnds(q) PROVE UNCHANGED vote
    BY <1>6 DEF LeaseEnds
<1>7. ASSUME NEW m \in late, LateAccept(m) PROVE UNCHANGED vote
    BY <1>7 DEF LateAccept
<1>8. ASSUME NEW c \in Callers, AskVote(c) PROVE vote'[v] = vote[v] \/ vote[v] = 0
    BY <1>1, <1>8, VotingStep
<1>9. ASSUME NEW m \in lateVotes, LateVote(m) PROVE vote'[v] = vote[v] \/ vote[v] = 0
    BY <1>1, <1>9, VotingStep
<1>10. ASSUME NEW m \in lateCommits, LateCommit(m) PROVE UNCHANGED vote
    BY <1>10 DEF LateCommit
<1> QED BY <1>2, <1>3, <1>4, <1>5, <1>6, <1>7, <1>8, <1>9, <1>10 DEF Next

(* Every step keeps BackInv: leases and elections are backed by votes. *)
LEMMA BackInvStep ==
    ASSUME Unique', BaseInv, ElectionInv, Next
    PROVE  BackInv'
<1> USE DEF BaseInv
<1>0. BackInv
    BY DEF ElectionInv
<1>t. TypeOK'
    BY TypeStep
<1>r. \A r \in Replicas : r # 0
    BY TypeFacts
<1>1. ASSUME NEW r \in Replicas, backers'[r] # {} PROVE IsQuorum(backers'[r])
    BY <1>0, <1>1, BackersStep DEF BackInv
<1>2. ASSUME NEW r \in Replicas, NEW v \in backers'[r] PROVE vote'[v] = r
    <2>0. v \in Replicas
        BY <1>t DEF TypeOK
    <2>1. CASE v \in backers[r]
        <3>1. vote[v] = r
            BY <1>0, <2>1 DEF BackInv
        <3>2. ~VoteEnds(v)
            BY <2>1, <3>1 DEF VoteEnds
        <3> QED BY <1>r, <2>0, <3>1, <3>2, VoteStep
    <2>2. ASSUME NEW c \in Callers, Win(c), job[c].at = r, Electing(c), v \notin backers[r],
                 backers'[r] = IF job[c].lapsed THEN {} ELSE job[c].yes
          PROVE  vote'[v] = r
        <3>1. ~job[c].lapsed /\ v \in job[c].yes
            BY <1>2, <2>2
        <3>2. vote[v] = r /\ UNCHANGED vote
            BY <1>0, <2>2, <3>1 DEF BackInv, Win
        <3> QED BY <3>2
    <2> QED BY <1>2, <2>1, <2>2, BackersStep
<1>3. ASSUME NEW c \in Callers, NEW v \in job'[c].yes, Asks(c)'
      PROVE  term'[v] >= job'[c].term
    <2>1. v \in Replicas /\ job[c].term \in Nat
        BY <1>t, TypeFacts DEF TypeOK, Job
    <2>2. ASSUME v \in job[c].yes, Asks(c) PROVE term'[v] >= job[c].term
        <3>1. term[v] >= job[c].term /\ term'[v] >= term[v] /\ term[v] \in Nat /\ term'[v] \in Nat
            BY <1>0, <2>1, <2>2, TermGrows, TypeFacts DEF BackInv
        <3> QED BY <2>1, <3>1
    <2>3. CASE job'[c].phase = "sync"
        <3>1. /\ v \in job[c].yes /\ job'[c].term = job[c].term /\ Asks(c)
            BY <1>3, <2>3, SyncingStep, WinEffect DEF SameCall, Asks
        <3> QED BY <2>2, <3>1
    <2>4. CASE job'[c].phase = "vote"
        <3>1. ~\E r \in Candidates : RequestLeadership(c, r)
            BY <1>3, RequestLeadershipEffect
        <3>2. Continues(c)
            BY <2>4, <3>1, ElectingStep DEF Electing
        <3>3. job'[c].term = job[c].term /\ Asks(c)
            BY <3>2 DEF Continues, SameCall, Electing, Asks
        <3>4. CASE v \in job[c].yes
            BY <2>2, <3>3, <3>4
        <3>5. CASE v \notin job[c].yes
            <4>1. AskVote(c) /\ Next1(c) = v
                BY <3>2, <3>5 DEF Continues
            <4>2. term'[v] = job[c].term
                BY <4>1, AskVoteEffect
            <4> QED BY <2>1, <3>3, <4>2
        <3> QED BY <3>4, <3>5
    <2> QED BY <1>3, <2>3, <2>4 DEF Asks
<1>4. ASSUME NEW c \in Callers, NEW v \in job'[c].yes, Electing(c)', ~job'[c].lapsed
      PROVE  vote'[v] = job'[c].at
    <2>1. v \in Replicas
        BY <1>t DEF TypeOK, Job
    <2>2. ~\E r \in Candidates : RequestLeadership(c, r)
        BY <1>4, RequestLeadershipEffect
    <2>3. Continues(c)
        BY <1>4, <2>2, ElectingStep
    <2>4. Electing(c) /\ job'[c].at = job[c].at /\ ~job[c].lapsed /\ job[c].at \in Replicas
        BY <1>4, <2>3, TypeFacts DEF Continues, SameCall
    <2>5. CASE v \in job[c].yes
        <3>1. vote[v] = job[c].at
            BY <1>0, <2>4, <2>5 DEF BackInv
        <3>2. ~VoteEnds(v)
            <4>1. ASSUME VoteEnds(v) PROVE job'[c].lapsed
                BY <2>1, <2>4, <2>5, <3>1, <4>1, VoteEndsEffect DEF Electing
            <4> QED BY <1>4, <4>1
        <3> QED BY <1>r, <2>1, <2>4, <3>1, <3>2, VoteStep
    <2>6. CASE v \notin job[c].yes
        <3>1. AskVote(c) /\ Next1(c) = v
            BY <2>3, <2>6 DEF Continues
        <3> QED BY <2>4, <3>1, AskVoteEffect
    <2> QED BY <2>5, <2>6
<1> QED BY <1>1, <1>2, <1>3, <1>4 DEF BackInv

(* Those that may still vote for a candidate only become fewer. *)
LEMMA BelowShrinks ==
    ASSUME Unique', BaseInv, Next, NEW t \in Nat, NEW q \in Replicas, term'[q] <= t
    PROVE  term[q] <= t
<1>1. term'[q] >= term[q] /\ term[q] \in Nat /\ term'[q] \in Nat
    BY TermGrows, TypeFacts DEF BaseInv
<1> QED BY <1>1

(* A replica that may no longer say yes in a loop never may again. *)
LEMMA PossibleShrinks ==
    ASSUME Unique', BaseInv, Next, NEW c \in Callers, Continues(c)
    PROVE  /\ Possible(c) \in SUBSET Replicas /\ Possible(c)' \in SUBSET Possible(c)
           /\ job[c].yes \in SUBSET Possible(c)
<1> USE DEF BaseInv
<1>1. /\ job[c].term \in Nat /\ job[c].asked \in Nat /\ job'[c].asked \in Nat
      /\ job[c].yes \in SUBSET Replicas /\ job'[c].term = job[c].term
      /\ job'[c].asked >= job[c].asked
    <2>1. TypeOK'
        BY TypeStep
    <2>2. job'[c].asked \in 0..Members /\ Members \in Nat /\ job[c].yes \in SUBSET Replicas
        BY <2>1, TypeFacts DEF TypeOK, Job
    <2>3. job'[c].asked \in Nat
        BY <2>2
    <2>4. job'[c].term = job[c].term /\ job'[c].asked >= job[c].asked
        BY DEF Continues, SameCall
    <2> QED BY <2>2, <2>3, <2>4, TypeFacts
<1>2. ASSUME NEW q \in Possible(c)' PROVE q \in Possible(c)
    <2>1. CASE q \in job'[c].yes
        <3>1. CASE q \in job[c].yes
            BY <3>1 DEF Possible
        <3>2. CASE q \notin job[c].yes
            <4>1. AskVote(c) /\ Next1(c) = q
                BY <2>1, <3>2 DEF Continues
            <4>2. q \in Replicas /\ job[c].term >= term[q] /\ q = job[c].asked + 1 /\ term[q] \in Nat
                BY <4>1, AskVoteEffect, TypeFacts DEF Next1
            <4>3. term[q] <= job[c].term /\ q > job[c].asked
                BY <1>1, <4>2
            <4> QED BY <4>2, <4>3 DEF Possible, Below
        <3> QED BY <3>1, <3>2
    <2>2. CASE q \notin job'[c].yes
        <3>1. q \in Replicas /\ term'[q] <= job[c].term /\ q > job'[c].asked /\ q \in Nat
            BY <1>1, <1>2, <2>2, TypeFacts DEF Possible, Below
        <3>2. term[q] <= job[c].term /\ q > job[c].asked
            BY <1>1, <3>1, BelowShrinks
        <3> QED BY <3>1, <3>2 DEF Possible, Below
    <2> QED BY <2>1, <2>2
<1>3. Possible(c) \in SUBSET Replicas
    BY <1>1 DEF Possible, Below
<1> QED BY <1>2, <1>3 DEF Possible

(* Every step keeps LeaseInv: no term above that of a lease is won while it lasts. *)
LEMMA LeaseInvStep ==
    ASSUME Unique', BaseInv, ElectionInv, Next
    PROVE  LeaseInv'
<1> USE DEF BaseInv
<1>0. LeaseInv /\ BackInv /\ CountInv /\ TermInv
    BY DEF ElectionInv
<1>t. TypeOK' /\ TermInv'
    BY TypeStep, TermInvStep
<1>e. ASSUME NEW c \in Callers, NEW v \in job'[c].yes, Electing(c)'
      PROVE  /\ Continues(c) /\ Electing(c) /\ v \in Replicas /\ v # 0
             /\ job'[c].at = job[c].at /\ job'[c].term = job[c].term
             /\ ~job'[c].lapsed => ~job[c].lapsed
             /\ \/ v \in job[c].yes
                \/ /\ AskVote(c) /\ Next1(c) = v /\ Others(c)
                   /\ job[c].term >= term[v] /\ vote[v] \in {0, job[c].at}
    <2>1. ~\E r \in Candidates : RequestLeadership(c, r)
        BY <1>e, RequestLeadershipEffect
    <2>2. Continues(c)
        BY <1>e, <2>1, ElectingStep
    <2>3. v \in Replicas
        BY <1>t DEF TypeOK, Job
    <2> QED BY <2>2, <2>3, TypeFacts, AskVoteEffect DEF Continues, SameCall
<1>1. ASSUME NEW c \in Callers, NEW d \in Callers, NEW v \in job'[c].yes \cap job'[d].yes,
             Electing(c)', Electing(d)', ~job'[c].lapsed, job'[c].at # job'[d].at
      PROVE  job'[d].term <= job'[c].term
    <2>1. /\ Electing(c) /\ Electing(d) /\ ~job[c].lapsed /\ job[c].at # job[d].at /\ c # d
          /\ job'[c].term = job[c].term /\ job'[d].term = job[d].term
          /\ job[c].term \in Nat /\ job[d].term \in Nat /\ v \in Replicas
          /\ term[v] \in Nat /\ job[c].at # 0
        BY <1>1, <1>e, TypeFacts
    <2>2. CASE v \in job[c].yes /\ v \in job[d].yes
        BY <1>0, <2>1, <2>2 DEF LeaseInv
    <2>3. CASE v \notin job[c].yes
        <3>1. job[c].term >= term[v] /\ Others(c)
            BY <1>1, <1>e, <2>3
        <3>2. v \in job[d].yes
            BY <1>1, <2>1, <3>1 DEF Others
        <3>3. term[v] >= job[d].term
            BY <1>0, <2>1, <3>2 DEF BackInv, Asks, Electing
        <3> QED BY <2>1, <3>1, <3>3
    <2>4. CASE v \in job[c].yes /\ v \notin job[d].yes
        <3>1. vote[v] = job[c].at
            BY <1>0, <2>1, <2>4 DEF BackInv
        <3>2. vote[v] \in {0, job[d].at}
            BY <1>1, <1>e, <2>4
        <3> QED BY <2>1, <3>1, <3>2
    <2> QED BY <2>2, <2>3, <2>4
<1>2. ASSUME NEW r \in Replicas, NEW d \in Callers, NEW v \in backers'[r] \cap job'[d].yes,
             HasLease(r)', Electing(d)', job'[d].at # r
      PROVE  job'[d].term <= term'[r]
    <2>1. /\ Electing(d) /\ job[d].at # r /\ job'[d].term = job[d].term
          /\ v \in Replicas /\ r # 0
        BY <1>2, <1>e, TypeFacts
    <2>2. CASE HasLease(r) /\ term'[r] = term[r] /\ backers'[r] = backers[r]
        <3>1. vote[v] = r
            BY <1>0, <1>2, <2>2 DEF BackInv
        <3>2. v \in job[d].yes
            BY <1>2, <1>e, <2>1, <3>1
        <3> QED BY <1>0, <1>2, <2>1, <2>2, <3>2 DEF LeaseInv
    <2>3. ASSUME NEW c \in Callers, Win(c), job[c].at = r, Electing(c), ~job[c].lapsed,
                 backers'[r] = job[c].yes
          PROVE  job'[d].term <= term'[r]
        <3>1. Others(c) /\ job'[c].phase = "sync" /\ term'[r] = job[c].term
            BY <2>3, WinEffect, Wins
        <3>2. c # d
            BY <1>2, <3>1 DEF Electing
        <3>3. v \in job[c].yes /\ v \in job[d].yes
            BY <1>2, <2>3, <3>1, <3>2 DEF Others
        <3>4. job[d].term <= job[c].term
            BY <1>0, <2>1, <2>3, <3>3 DEF LeaseInv
        <3> QED BY <2>1, <3>1, <3>4
    <2> QED BY <1>2, <2>2, <2>3, LeaseStep
<1>3. ASSUME NEW r \in Replicas, NEW t \in Terms, HasLease(r)', Won(t)'
      PROVE  t <= term'[r]
    <2>1. CASE HasLease(r) /\ term'[r] = term[r]
        <3>1. CASE Won(t)
            BY <1>0, <2>1, <3>1 DEF LeaseInv
        <3>2. ASSUME NEW d \in Callers, Win(d), Electing(d), job[d].term = t PROVE t <= term[r]
            <4>1. job[d].at # r
                <5>1. role[job[d].at] = "candidate"
                    BY <1>0, <3>2 DEF CountInv
                <5> QED BY <2>1, <5>1 DEF HasLease
            <4>2. IsQuorum(backers[r]) /\ backers[r] \in SUBSET Replicas
                BY <1>0, <2>1 DEF HasLease, BackInv, TypeOK
            <4>3. PICK v \in backers[r] : v \in job[d].yes
                BY <3>2, <4>2, Wins, QuorumsMeet
            <4> QED BY <1>0, <2>1, <3>2, <4>1, <4>3 DEF LeaseInv
        <3> QED BY <1>3, <2>1, <3>1, <3>2, WonStep
    <2>2. ASSUME NEW c \in Callers, Win(c), job[c].at = r, Electing(c), ~job[c].lapsed
          PROVE  t <= term'[r]
        <3>1. /\ IsQuorum(job[c].yes) /\ job[c].yes \in SUBSET Replicas /\ term'[r] = job[c].term
              /\ job[c].term \in Nat
            BY <2>2, Wins, TypeFacts
        <3>2. CASE Won(t)
            <4>1. Possible(c) \in SUBSET Replicas /\ job[c].yes \in SUBSET Possible(c)
                BY <3>1 DEF Possible, Below
            <4>2. IsQuorum(Possible(c))
                BY <3>1, <4>1, QuorumGrows
            <4> QED BY <1>0, <2>2, <3>1, <3>2, <4>2 DEF LeaseInv
        <3>3. ASSUME NEW d \in Callers, Win(d), job[d].term = t PROVE t <= job[c].term
            <4>1. c = d
                BY <2>2, <3>3, OneMover DEF Moves
            <4> QED BY <3>1, <3>3, <4>1
        <3> QED BY <1>3, <3>1, <3>2, <3>3, WonStep
    <2> QED BY <1>3, <2>1, <2>2, LeaseStep
<1>4. ASSUME NEW c \in Callers, NEW t \in Terms, Electing(c)', ~job'[c].lapsed,
             IsQuorum(Possible(c)'), Won(t)'
      PROVE  t <= job'[c].term
    <2>0. t \in Nat /\ job[c].term \in Nat
        BY TypeFacts
    <2>1. CASE Continues(c)
        <3>1. /\ Electing(c) /\ ~job[c].lapsed /\ job'[c].term = job[c].term
            BY <1>4, <2>1 DEF Continues, SameCall
        <3>2. IsQuorum(Possible(c)) /\ Possible(c) \in SUBSET Replicas
            BY <1>4, <2>1, PossibleShrinks, QuorumGrows
        <3>3. CASE Won(t)
            BY <1>0, <3>1, <3>2, <3>3 DEF LeaseInv
        <3>4. ASSUME NEW d \in Callers, Win(d), Electing(d), job[d].term = t PROVE t <= job[c].term
            <4>1. c # d
                BY <1>4, <3>4, Wins DEF Electing
            <4>2. job[c].at # job[d].at
                BY <1>0, <3>1, <3>4, <4>1 DEF CountInv
            <4>3. PICK v \in job[d].yes : v \in Possible(c)
                BY <3>2, <3>4, Wins, QuorumsMeet
            <4>4. term[v] >= job[d].term
                BY <3>4, Wins
            <4>5. CASE v \in job[c].yes
                BY <1>0, <3>1, <3>4, <4>2, <4>3, <4>5 DEF LeaseInv
            <4>6. CASE v \notin job[c].yes
                <5>1. v \in Replicas /\ term[v] <= job[c].term /\ term[v] \in Nat
                    BY <4>3, <4>6, TypeFacts DEF Possible, Below
                <5> QED BY <2>0, <3>4, <4>4, <5>1
            <4> QED BY <4>5, <4>6
        <3> QED BY <1>4, <3>1, <3>3, <3>4, WonStep
    <2>2. ASSUME NEW r \in Candidates, RequestLeadership(c, r) PROVE t <= job'[c].term
        <3>1. IsQuorum(Reached(t)') /\ Reached(t)' \in SUBSET Replicas
            BY <1>4, <1>t DEF TermInv, Reached
        <3>2. Possible(c)' \in SUBSET Replicas /\ job'[c].yes = {}
            BY <2>2, RequestLeadershipEffect DEF Possible, Below
        <3>3. PICK q \in Reached(t)' : q \in Possible(c)'
            BY <1>4, <3>1, <3>2, QuorumsMeet
        <3>4. term'[q] >= t /\ term'[q] <= job'[c].term /\ q \in Replicas
            BY <3>2, <3>3 DEF Reached, Possible, Below
        <3>5. term'[q] \in Nat /\ job'[c].term \in Nat
            BY <1>t, <2>2, <3>4, TermGrows, RequestLeadershipEffect, TypeFacts
        <3> QED BY <2>0, <3>4, <3>5
    <2> QED BY <1>4, <2>1, <2>2, ElectingStep
<1> QED BY <1>1, <1>2, <1>3, <1>4 DEF LeaseInv

(* Every step keeps what the elections rely on. *)
LEMMA ElectionStep ==
    ASSUME Unique', BaseInv, ElectionInv, Next
    PROVE  BaseInv' /\ ElectionInv'
BY TypeStep, JobInvStep, TermInvStep, CountInvStep, DelayInvStep, OwnInvStep, BackInvStep, LeaseInvStep
   DEF BaseInv, ElectionInv

-----------------------------------------------------------------------------
(* What a leader holds of its own term *)

(* An entry that the election still drives is driven until its own replica
   has accepted it. *)
LEMMA AwaitsStep ==
    ASSUME BaseInv, Next, NEW d \in Callers, NEW r \in Replicas, NEW s \in Slots,
           Awaits(job[d], r, s), job[d].term = term[r]
    PROVE  \/ Awaits(job'[d], r, s) /\ job'[d].term = job[d].term
           \/ AskAccept(d) /\ Next1(d) = r /\ First(job[d].todo).slot = s
<1> USE DEF BaseInv
<1>0. /\ job[d].calls = "election" /\ job[d].at = r /\ job[d].phase \in {"drive", "commit"}
      /\ \E e \in job[d].todo : e.slot = s
      /\ s = First(job[d].todo).slot => job[d].phase = "drive" /\ job[d].asked < r
      /\ job[d].ready
    BY DEF Awaits, JobInv, JobOK
<1>f. r > 0 /\ r \in Nat /\ r <= Members /\ Members \in Nat /\ job[d].asked \in Nat
      /\ job[d] \in Job
    BY TypeFacts DEF TypeOK
<1>1. CASE job'[d] = job[d]
    BY <1>1
<1>2. ASSUME s # First(job[d].todo).slot, job'[d] = DriveRest(job[d])
      PROVE  Awaits(job'[d], r, s) /\ job'[d].term = job[d].term
    <2> DEFINE S == job[d].todo \ {First(job[d].todo)}
    <2>1. S \in SUBSET Driven /\ S # {}
        BY <1>0, <1>2, <1>f DEF Job
    <2>2. job'[d] = Drive(job[d], S)
        BY <1>2 DEF DriveRest
    <2>3. \E e \in S : e.slot = s
        BY <1>0, <1>2
    <2> HIDE DEF S
    <2>4. /\ job'[d].phase = "drive" /\ job'[d].asked = 0 /\ job'[d].todo = S
          /\ job'[d].at = r /\ job'[d].term = job[d].term /\ job'[d].calls = "election"
        BY <1>0, <1>f, <2>1, <2>2, DriveFields
    <2> QED BY <1>f, <2>3, <2>4 DEF Awaits
<1>3. CASE AskAccept(d) \/ NoAccept(d)
    <2>1. /\ GoesOn(job'[d], job[d]) /\ job'[d].asked = job[d].asked + 1
          /\ job[d].phase = "drive" /\ Next1(d) = job[d].asked + 1
        BY <1>3, AcceptEffect, AskedEffect DEF Next1
    <2>2. CASE s # First(job[d].todo).slot \/ job'[d].asked < r
        BY <1>0, <2>1, <2>2 DEF GoesOn, SameCall, Awaits
    <2>3. CASE s = First(job[d].todo).slot /\ ~(job'[d].asked < r)
        <3>1. Next1(d) = r
            BY <1>0, <1>f, <2>1, <2>3
        <3>2. ~NoAccept(d)
            <4>1. ASSUME NoAccept(d) PROVE FALSE
                <5>1. ~MayFail(d, r)
                    BY <1>0 DEF MayFail
                <5>2. job[d].term < term[r]
                    BY <3>1, <4>1, <5>1 DEF NoAccept
                <5> QED BY <5>2, TypeFacts
            <4> QED BY <4>1
        <3> QED BY <1>3, <2>3, <3>1, <3>2
    <2> QED BY <2>2, <2>3
<1>4. CASE Chosen(d)
    <2>1. /\ job[d].asked = Members /\ job'[d].phase = "commit" /\ job'[d].todo = job[d].todo
          /\ SameCall(job'[d], job[d])
        BY <1>4, ChosenEffect
    <2>2. s # First(job[d].todo).slot
        BY <1>0, <1>f, <2>1
    <2> QED BY <1>0, <2>1, <2>2 DEF SameCall, Awaits
<1>5. CASE NotChosen(d)
    <2>1. job[d].asked = Members /\ job'[d] = DriveRest(job[d])
        BY <1>5, NotChosenEffect
    <2>2. s # First(job[d].todo).slot
        BY <1>0, <1>f, <2>1
    <2> QED BY <1>2, <2>1, <2>2
<1>6. CASE Notify(d) \/ NotifyLost(d)
    <2>1. s # First(job[d].todo).slot
        BY <1>0, <1>6, NotifyEffect
    <2>2. CASE job'[d] = DriveRest(job[d])
        BY <1>2, <2>1, <2>2
    <2>3. CASE job'[d] # DriveRest(job[d])
        <3>1. job'[d].phase = "commit" /\ job'[d].todo = job[d].todo /\ SameCall(job'[d], job[d])
            BY <1>6, <2>3, NotifyEffect
        <3> QED BY <1>0, <2>1, <3>1 DEF SameCall, Awaits
    <2> QED BY <2>2, <2>3
<1>7. CASE \E q \in Replicas : VoteEnds(q)
    <2>1. /\ SameCall(job'[d], job[d]) /\ job'[d].phase = job[d].phase /\ job'[d].todo = job[d].todo
          /\ job'[d].asked = job[d].asked
        BY <1>7, VoteEndsEffect
    <2> QED BY <1>0, <2>1 DEF SameCall, Awaits
<1>8. ~\E q \in Candidates : RequestLeadership(d, q) \/ StartPropose(d, q)
    BY <1>0 DEF RequestLeadership, StartPropose
<1>9. ~(AskVote(d) \/ NoVote(d) \/ Win(d) \/ Lose(d))
    BY <1>0, VoteEffect, WinEffect DEF Lose, AskedAll
<1>10. ~Sync(d) /\ ~SyncDone(d) /\ ~Redrive(d) /\ ~TakeSlot(d)
    BY <1>0, SyncEffect, SyncDoneEffect, RedriveEffect, TakeSlotEffect
<1> QED BY <1>1, <1>3, <1>4, <1>5, <1>6, <1>7, <1>8, <1>9, <1>10, CallsStep

(* An entry an election is about to write at its own replica stays so until written. *)
LEMMA PendingStep ==
    ASSUME BaseInv, Next, NEW r \in Replicas, NEW s \in Slots, term'[r] = term[r], Pending(r, s)
    PROVE  \/ Pending(r, s)'
           \/ \E m \in Requests : /\ Accepting(m) /\ m.to = r /\ m.slot = s /\ m.term = term[r]
                                  /\ log'[r][s] = [term |-> m.term, value |-> m.value]
<1> USE DEF BaseInv
<1>1. PICK d \in Callers : Awaits(job[d], r, s) /\ job[d].term = term[r]
    BY DEF Pending
<1>2. CASE Awaits(job'[d], r, s) /\ job'[d].term = job[d].term
    BY <1>1, <1>2 DEF Pending
<1>3. CASE AskAccept(d) /\ Next1(d) = r /\ First(job[d].todo).slot = s
    <2> DEFINE m == Request(d)
    <2>1. Driving(d) /\ Accept(m) /\ UNCHANGED <<role, vote, backers>>
        BY <1>3 DEF AskAccept, electing
    <2>2. m \in Requests /\ m.to = r /\ m.slot = s /\ m.term = term[r] /\ Known(m.term, m.slot, m.value)
        BY <1>1, <1>3, <2>1, RequestFields, DrivenIsKnown
    <2> HIDE DEF m
    <2>3. log'[r][s] = [term |-> m.term, value |-> m.value]
        BY <2>1, <2>2, AcceptedEffect
    <2> QED BY <2>1, <2>2, <2>3 DEF Accepting
<1> QED BY <1>1, <1>2, <1>3, AwaitsStep

(* Every step keeps the next slot after the slots in use. *)
LEMMA PlacedStep ==
    ASSUME BaseInv, Placed, Next
    PROVE  Placed'
<1> USE DEF BaseInv
<1>1. SUFFICES ASSUME NEW q \in Replicas, NEW s \in Slots, log'[q][s] # NoEntry
               PROVE  nextSlot'[q] > s
    BY DEF Placed
<1>2. CASE log'[q][s] = log[q][s]
    <2>1. nextSlot[q] > s /\ nextSlot'[q] >= nextSlot[q] /\ nextSlot[q] \in Nat /\ s \in Nat
        BY <1>1, <1>2, NextSlotGrows, TypeFacts DEF Placed
    <2>2. nextSlot'[q] \in 1..MaxSlot + 1 /\ MaxSlot \in Nat
        BY TypeStep, BoundsAssumption DEF TypeOK
    <2> QED BY <2>1, <2>2
<1>3. CASE log'[q][s] # log[q][s]
    BY <1>3, LogStep
<1> QED BY <1>2, <1>3

(* What a call newly writes in the term of its election, or of its replica. *)
LEMMA NewIsFound ==
    ASSUME BaseInv, NEW c \in Callers, NEW t \in Terms, NEW s \in Slots, NEW v \in Values,
           NewFound(c, t, s, v)
    PROVE  /\ job[c].asked = Members /\ job[c].phase = "sync" /\ t = job[c].term
           /\ job[c].merged \in Log /\ job[c].merged[s] # NoEntry /\ job[c].merged[s].value = v
           /\ Known(job[c].merged[s].term, s, v)
           /\ job'[c].at = job[c].at /\ job'[c].term = t /\ job'[c].calls = "election"
           /\ job'[c].phase = "drive" /\ job'[c].asked = 0
           /\ \E e \in job'[c].todo : e.slot = s
           /\ nextSlot'[job[c].at] > s /\ UNCHANGED <<log, term>>
<1> USE DEF BaseInv
<1>1. SyncDone(c) /\ t = job[c].term /\ job[c].merged[s] # NoEntry /\ job[c].merged[s].value = v
    BY DEF NewFound
<1>2. PICK e \in Entries(job[c].merged) : e.slot = s
    BY DEF NewFound
<1>3. job[c].merged \in Log /\ job[c].phase = "sync" /\ job[c].asked = Members /\ job[c].calls = "election"
    BY <1>1, SyncDoneEffect DEF TypeOK, Job, JobInv, JobOK
<1>4. Driving1(job'[c], Entries(job[c].merged)) /\ SameCall(job'[c], job[c])
    BY <1>1, <1>2, SyncDoneEffect
<1>5. nextSlot'[job[c].at] > s
    BY <1>1, <1>2, NextAfterSync
<1>6. UNCHANGED <<log, term>>
    BY <1>1 DEF SyncDone
<1>7. Found(c, job[c].merged[s].term, s, v)
    BY <1>1, <1>3 DEF Found
<1> QED BY <1>1, <1>2, <1>3, <1>4, <1>5, <1>6, <1>7 DEF Driving1, SameCall, Known

(* What a propose drives anew: an entry of its log, or a value for a free slot. *)
LEMMA NewIsDriven ==
    ASSUME BaseInv, TermInv, NEW c \in Callers, NEW t \in Terms, NEW s \in Slots, NEW v \in Values,
           NewDriven(c, t, s, v) \/ NewTaken(c, t, s, v), NEW r, r = job[c].at
    PROVE  /\ r \in Replicas /\ t = term[r] /\ Leads(r) /\ Preparing(r) /\ UNCHANGED <<log, term>>
           /\ ~Pending(r, s) /\ ~Syncing(r)
           /\ \/ NewDriven(c, t, s, v) /\ log[r][s] # NoEntry /\ log[r][s].value = v
              \/ NewTaken(c, t, s, v) /\ s = nextSlot[r] /\ nextSlot'[r] > s /\ v = proposals + 1
<1>1. r \in Replicas /\ t = term[r] /\ Leads(r) /\ Preparing(r)
    <2>1. New(c, t, s, v) /\ (Redrive(c) \/ TakeSlot(c))
        BY DEF New, NewDriven, NewTaken
    <2>2. job[c].phase # "sync"
        BY <2>1, RedriveEffect, TakeSlotEffect DEF BaseInv
    <2> QED BY <2>1, <2>2, NewIsWon
<1>2. UNCHANGED <<log, term>>
    BY DEF NewDriven, NewTaken, Redrive, TakeSlot, logging
<1>3. ~Pending(r, s) /\ ~Syncing(r)
    <2>1. \A d \in Callers : job[d].at = r => job[d].calls # "election" /\ job[d].phase # "sync"
        BY <1>1, PreparesAlone
    <2> QED BY <2>1 DEF Pending, Awaits, Syncing
<1> QED BY <1>1, <1>2, <1>3 DEF NewDriven, NewTaken

(* Every step keeps one value to a term and slot. *)
LEMMA OneValueKnownStep ==
    ASSUME Unique', BaseInv, ElectionInv, LogInv, Next
    PROVE  OneValueKnown'
<1>0. TermInv /\ OwnInv /\ OneValueKnown /\ LeaderKeeps
    BY DEF ElectionInv, LogInv
<1>1. ASSUME NEW t \in Terms, NEW s \in Slots, NEW v \in Values, NEW w \in Values,
             NEW c \in Callers, New(c, t, s, v), Known(t, s, w)
      PROVE  v = w
    <2>1. CASE NewFound(c, t, s, v)
        BY <1>0, <1>1, <2>1, NewIsFound DEF OwnInv
    <2>2. CASE NewDriven(c, t, s, v)
        <3>1. PICK r \in Replicas : r = job[c].at /\ t = term[r] /\ Leads(r) /\ ~Pending(r, s)
                                    /\ log[r][s] # NoEntry /\ log[r][s].value = v
            <4>1. PICK r : r = job[c].at
                OBVIOUS
            <4> QED BY <1>0, <2>2, <4>1, NewIsDriven DEF NewDriven
        <3> QED BY <1>0, <1>1, <3>1 DEF LeaderKeeps
    <2>3. CASE NewTaken(c, t, s, v)
        <3>1. PICK r \in Replicas : r = job[c].at /\ t = term[r] /\ Leads(r) /\ s = nextSlot[r]
            <4>1. PICK r : r = job[c].at
                OBVIOUS
            <4> QED BY <1>0, <2>3, <4>1, NewIsDriven DEF NewTaken
        <3>2. nextSlot[r] > s /\ nextSlot[r] \in Nat
            BY <1>0, <1>1, <3>1, TypeFacts DEF LeaderKeeps, BaseInv
        <3> QED BY <3>1, <3>2
    <2> QED BY <1>1, <2>1, <2>2, <2>3 DEF New
<1>2. ASSUME NEW t \in Terms, NEW s \in Slots, NEW v \in Values, NEW w \in Values,
             NEW c \in Callers, NEW d \in Callers, New(c, t, s, v), New(d, t, s, w)
      PROVE  v = w
    <2>1. c = d
        BY <1>2, NewIsWon, OneMover
    <2>2. ~(SyncDone(c) /\ Redrive(c)) /\ ~(SyncDone(c) /\ TakeSlot(c)) /\ ~(Redrive(c) /\ TakeSlot(c))
        BY SyncDoneEffect, RedriveEffect, TakeSlotEffect DEF BaseInv
    <2> QED BY <1>2, <2>1, <2>2 DEF New, NewFound, NewDriven, NewTaken
<1>3. ASSUME NEW t \in Terms, NEW s \in Slots, NEW v \in Values, NEW w \in Values,
             Known(t, s, v)', Known(t, s, w)'
      PROVE  v = w
    <2>1. Known(t, s, v) \/ \E c \in Callers : New(c, t, s, v)
        BY <1>3, KnownStep
    <2>2. Known(t, s, w) \/ \E c \in Callers : New(c, t, s, w)
        BY <1>3, KnownStep
    <2>3. CASE Known(t, s, v) /\ Known(t, s, w)
        BY <1>0, <2>3 DEF OneValueKnown
    <2> QED BY <1>1, <1>2, <2>1, <2>2, <2>3
<1> QED BY <1>3 DEF OneValueKnown

(* What a leader's log may hold of its own term after a step. *)
LEMMA OwnEntryStep ==
    ASSUME BaseInv, Next, NEW r \in Replicas, NEW s \in Slots, NEW v \in Values, term'[r] = term[r],
           \A w \in Values : Known(term[r], s, w) => w = v,
           log[r][s] = NoEntry \/ log[r][s].value = v \/ Pending(r, s)
    PROVE  log'[r][s] = NoEntry \/ log'[r][s].value = v \/ Pending(r, s)'
<1>1. ASSUME NEW m \in Requests, Accepting(m), m.slot = s, m.term = term[r],
             log'[r][s] = [term |-> m.term, value |-> m.value]
      PROVE  log'[r][s].value = v
    <2>1. m.value \in Values /\ Known(term[r], s, m.value)
        BY <1>1 DEF Requests, Accepting
    <2> QED BY <1>1, <2>1
<1>2. CASE Pending(r, s)
    <2>1. CASE Pending(r, s)'
        BY <2>1
    <2>2. CASE ~Pending(r, s)'
        <3>1. PICK m \in Requests : /\ Accepting(m) /\ m.slot = s /\ m.term = term[r]
                                    /\ log'[r][s] = [term |-> m.term, value |-> m.value]
            BY <1>2, <2>2, PendingStep
        <3> QED BY <1>1, <3>1
    <2> QED BY <2>1, <2>2
<1>3. CASE log'[r][s] = log[r][s] /\ ~Pending(r, s)
    BY <1>3
<1>4. CASE log'[r][s] # log[r][s]
    <2>1. PICK m \in Requests : /\ Accepting(m) /\ m.slot = s /\ term'[r] = m.term
                                /\ log'[r][s] = [term |-> m.term, value |-> m.value]
        BY <1>4, LogStep DEF BaseInv
    <2> QED BY <1>1, <2>1
<1> QED BY <1>2, <1>3, <1>4

(* Every step keeps the entries of its own term in the log of a leader. *)
LEMMA LeaderKeepsStep ==
    ASSUME Unique', BaseInv, ElectionInv, LogInv, Next
    PROVE  LeaderKeeps'
<1>0. TermInv /\ OwnInv /\ OneValueKnown /\ LeaderKeeps /\ Placed
    BY DEF ElectionInv, LogInv
<1>1. SUFFICES ASSUME NEW r \in Replicas, NEW s \in Slots, NEW v \in Values,
                      Leads(r)', Known(term[r], s, v)'
               PROVE  /\ nextSlot'[r] > s
                      /\ log'[r][s] = NoEntry \/ log'[r][s].value = v \/ Pending(r, s)'
    BY DEF LeaderKeeps
<1>2. PICK t \in Terms : t = term'[r]
    BY ElectionStep DEF BaseInv, TypeOK
<1>3. Known(t, s, v)'
    BY <1>1, <1>2
<1>4. ASSUME NEW c \in Callers, Win(c), job[c].at = r, term[r] = job[c].term, UNCHANGED term
      PROVE  FALSE
    <2>1. ~Won(t) /\ Moves(c)
        BY <1>2, <1>4, Wins
    <2>2. ASSUME NEW d \in Callers, New(d, t, s, v) PROVE FALSE
        BY <2>1, <2>2, NewIsWon
    <2>3. Known(t, s, v)
        BY <1>3, <2>2, KnownStep
    <2> QED BY <2>1, <2>3 DEF Won
<1>5. Leads(r) /\ term'[r] = term[r]
    BY <1>1, <1>4, LeadsStep
<1>6. CASE Known(t, s, v)
    <2>1. nextSlot[r] > s /\ (log[r][s] = NoEntry \/ log[r][s].value = v \/ Pending(r, s))
        BY <1>0, <1>2, <1>5, <1>6 DEF LeaderKeeps
    <2>2. \A w \in Values : Known(term[r], s, w) => w = v
        BY <1>0, <1>2, <1>5, <1>6 DEF OneValueKnown
    <2>3. log'[r][s] = NoEntry \/ log'[r][s].value = v \/ Pending(r, s)'
        BY <1>5, <2>1, <2>2, OwnEntryStep
    <2>4. nextSlot[r] \in Nat /\ s \in Nat /\ nextSlot'[r] >= nextSlot[r] /\ nextSlot'[r] \in Nat
        <3>1. TypeOK /\ TypeOK'
            BY ElectionStep DEF BaseInv
        <3>2. nextSlot'[r] \in 1..MaxSlot + 1 /\ MaxSlot \in Nat
            BY <3>1, BoundsAssumption DEF TypeOK
        <3> QED BY <3>1, <3>2, TypeFacts, NextSlotGrows
    <2> QED BY <2>1, <2>3, <2>4
<1>7. ASSUME NEW c \in Callers, NewFound(c, t, s, v)
      PROVE  nextSlot'[r] > s /\ Pending(r, s)'
    <2>1. job[c].phase = "sync" /\ job[c].term = term[r]
        BY <1>2, <1>5, <1>7, NewIsFound
    <2>2. job[c].at = r
        BY <1>0, <1>5, <2>1 DEF OwnInv, Serving
    <2>3. Awaits(job'[c], r, s)
        <3>1. r > 0
            BY TypeFacts DEF BaseInv
        <3> QED BY <1>7, <2>2, <3>1, NewIsFound DEF Awaits
    <2> QED BY <1>2, <1>7, <2>2, <2>3, NewIsFound DEF Pending
<1>8. ASSUME NEW c \in Callers, NewDriven(c, t, s, v) \/ NewTaken(c, t, s, v)
      PROVE  /\ nextSlot'[r] > s
             /\ log'[r][s] = NoEntry \/ log'[r][s].value = v
    <2>1. PICK q : q = job[c].at
        OBVIOUS
    <2>2. /\ q \in Replicas /\ t = term[q] /\ Leads(q) /\ UNCHANGED <<log, term>>
          /\ \/ log[q][s] # NoEntry /\ log[q][s].value = v
             \/ s = nextSlot[q] /\ nextSlot'[q] > s
        BY <1>0, <1>8, <2>1, NewIsDriven
    <2>3. q = r
        BY <1>0, <1>2, <1>5, <2>2 DEF OwnInv
    <2>4. CASE log[r][s] # NoEntry /\ log[r][s].value = v
        <3>1. Placed'
            BY <1>0, PlacedStep
        <3>2. log'[r][s] = log[r][s]
            BY <2>2
        <3>3. nextSlot'[r] > s
            BY <2>4, <3>1, <3>2 DEF Placed
        <3> QED BY <2>4, <3>2, <3>3
    <2>5. CASE s = nextSlot[r] /\ nextSlot'[r] > s
        <3>1. ~(nextSlot[r] > s)
            BY <2>5, TypeFacts DEF BaseInv
        <3>2. log[r][s] = NoEntry
            BY <1>0, <3>1 DEF Placed
        <3> QED BY <2>2, <2>5, <3>2
    <2> QED BY <2>2, <2>3, <2>4, <2>5
<1> QED BY <1>3, <1>6, <1>7, <1>8, KnownStep DEF New

(* Every step keeps what the logs and calls say of each other. *)
LEMMA LogInvStep ==
    ASSUME Unique', BaseInv, ElectionInv, LogInv, Next
    PROVE  LogInv'
BY PlacedStep, OneValueKnownStep, LeaderKeepsStep DEF LogInv

-----------------------------------------------------------------------------
(* What a quorum protects *)

(* No later term has been won while a quorum could still accept in this one. *)
SafeEntries == \A c \in Callers :
    job[c].phase = "drive" /\ IsQuorum(Below(job[c].term)) =>
        \A e \in job[c].todo : Safe(job[c].term, e.slot, e.value)

(* While a quorum is still in the term of a call, no later one has been won. *)
LEMMA SafeFromQuorum == BaseInv /\ ElectionInv /\ LogInv => SafeEntries
<1> SUFFICES ASSUME BaseInv, ElectionInv, LogInv, NEW c \in Callers, job[c].phase = "drive",
                    IsQuorum(Below(job[c].term)), NEW e \in job[c].todo
             PROVE  Safe(job[c].term, e.slot, e.value)
    BY DEF SafeEntries
<1> USE DEF BaseInv
<1>0. TermInv /\ CountInv /\ OwnInv /\ OneValueKnown /\ LeaderKeeps
    BY DEF ElectionInv, LogInv
<1>1. PICK t \in Terms : t = job[c].term
    BY DEF TypeOK, Job
<1>2. PICK s \in Slots : s = e.slot
    BY DEF TypeOK, Job, Driven
<1>3. PICK v \in Values : v = e.value
    BY DEF TypeOK, Job, Driven
<1>4. Serving(c) /\ Won(t) /\ t > 0 /\ t \in used /\ t \in Nat
    BY <1>0, <1>1, TypeFacts DEF Serving, Won, TermInv
<1>5. Known(t, s, v)
    BY <1>1, <1>2, <1>3 DEF Known, Drives
<1>6. ASSUME NEW u \in Terms, Won(u), u > t PROVE FALSE
    <2>1. IsQuorum(Reached(u)) /\ Reached(u) \in SUBSET Replicas
        BY <1>0, <1>6 DEF TermInv, Reached
    <2>2. Below(t) \in SUBSET Replicas /\ IsQuorum(Below(t))
        BY <1>1 DEF Below
    <2>3. PICK q \in Reached(u) : q \in Below(t)
        BY <2>1, <2>2, QuorumsMeet
    <2>4. term[q] >= u /\ term[q] <= t /\ term[q] \in Nat /\ u \in Nat
        BY <2>3, TypeFacts DEF Reached, Below
    <2> QED BY <1>4, <1>6, <2>4
<1>7. ASSUME NEW d \in Callers, Asks(d) PROVE job[d].term # t
    <2>1. CASE Electing(d)
        BY <1>0, <1>4, <2>1 DEF CountInv
    <2>2. CASE job[d].phase = "sync"
        <3>1. ASSUME job[d].term = t PROVE FALSE
            <4>1. c = d
                BY <1>0, <1>1, <1>4, <2>2, <3>1 DEF OwnInv
            <4> QED BY <2>2, <4>1
        <3> QED BY <3>1
    <2> QED BY <1>7, <2>1, <2>2 DEF Asks, Electing
<1>8. ASSUME NEW u \in Terms, NEW w \in Values, Known(u, s, w), u >= t PROVE w = v
    <2>1. Won(u)
        BY <1>8 DEF Won
    <2>2. ~(u > t)
        BY <1>6, <1>8, <2>1
    <2>3. u \in Nat
        BY TypeFacts
    <2>4. u = t
        BY <1>4, <1>8, <2>2, <2>3
    <2> QED BY <1>0, <1>5, <1>8, <2>4 DEF OneValueKnown
<1>9. ASSUME NEW d \in Callers, job[d].phase = "sync", job[d].term > t PROVE FALSE
    BY <1>6, <1>9 DEF Won, Serving, TypeOK, Job
<1>10. ASSUME NEW r \in Replicas, Leads(r), term[r] > t PROVE FALSE
    BY <1>6, <1>10 DEF Won, TypeOK
<1>11. ASSUME NEW r \in Replicas, Leads(r), term[r] = t
       PROVE  nextSlot[r] > s /\ (log[r][s] = NoEntry \/ log[r][s].value = v \/ Pending(r, s))
    BY <1>0, <1>5, <1>11 DEF LeaderKeeps
<1>12. Safe(t, s, v)
    BY <1>4, <1>7, <1>8, <1>9, <1>10, <1>11 DEF Safe
<1> QED BY <1>1, <1>2, <1>3, <1>12

(* Those that hold the entry, or one of a later term, or may still accept it. *)
Protects(t, s) == {q \in Replicas : log[q][s].term >= t \/ term[q] <= t}

(* What a quorum protects stays safe. *)
LEMMA SafeStable ==
    ASSUME Unique', Complete', BaseInv, ElectionInv, LogInv, Next,
           NEW t \in Terms, NEW s \in Slots, NEW v \in Values,
           Safe(t, s, v), IsQuorum(Protects(t, s))
    PROVE  Safe(t, s, v)'
<1> USE DEF BaseInv
<1>0. TermInv /\ CountInv /\ OwnInv /\ OneValueKnown /\ LeaderKeeps /\ Placed
    BY DEF ElectionInv, LogInv
<1>t. TypeOK'
    BY TypeStep
<1>s. /\ t > 0 /\ t \in used /\ t \in Nat /\ s \in Nat
      /\ \A d \in Callers : Asks(d) => job[d].term # t
      /\ \A u \in Terms, w \in Values : Known(u, s, w) /\ u >= t => w = v
      /\ \A d \in Callers : job[d].phase = "sync" /\ job[d].term > t =>
            \/ job[d].merged[s].term >= t
            \/ \E q \in job[d].yes : q > job[d].asked /\ log[q][s].term >= t
    BY TypeFacts DEF Safe
<1>l. \A r \in Replicas : Leads(r) /\ term[r] > t =>
          Syncing(r) \/ (nextSlot[r] > s /\ (log[r][s].term >= t \/ Pending(r, s)))
    BY DEF Safe
<1>m. \A r \in Replicas : Leads(r) /\ term[r] = t =>
          nextSlot[r] > s /\ (log[r][s] = NoEntry \/ log[r][s].value = v \/ Pending(r, s))
    BY DEF Safe
<1>g. /\ \A q \in Replicas : /\ log'[q][s].term >= log[q][s].term
                             /\ log'[q][s].term \in Nat /\ log[q][s].term \in Nat
      /\ \A q \in Replicas : /\ nextSlot'[q] >= nextSlot[q] /\ nextSlot'[q] \in Nat
                             /\ nextSlot[q] \in Nat /\ term[q] \in Nat
    <2>1. /\ \A q \in Replicas : log'[q][s].term \in Nat /\ log[q][s].term \in Nat
          /\ \A q \in Replicas : nextSlot'[q] \in Nat /\ nextSlot[q] \in Nat /\ term[q] \in Nat
        <3>1. \A l \in Log : l[s].term \in Nat
            BY TypeFacts DEF Log, Entry, NoEntry
        <3>2. \A n \in 1..MaxSlot + 1 : n \in Nat
            BY BoundsAssumption
        <3> QED BY <1>t, <3>1, <3>2, TypeFacts DEF TypeOK
    <2> QED BY <1>0, <2>1, LogGrows, NextSlotGrows
<1>e. ASSUME NEW l \in Log, l[s].term >= t PROVE l[s] # NoEntry /\ l[s].value \in Values /\ l[s].term \in Terms
    <2>1. l[s] # NoEntry
        BY <1>s, <1>e DEF NoEntry
    <2> QED BY <2>1 DEF Log, Entry
<1>1. ASSUME NEW d \in Callers, Asks(d)' PROVE job'[d].term # t
    <2>1. CASE job'[d].phase = "sync"
        BY <1>s, <2>1, SyncingStep, Wins DEF SameCall, Asks, Electing
    <2>2. CASE Electing(d)'
        <3>1. CASE Continues(d)
            BY <1>s, <3>1 DEF Continues, SameCall, Asks, Electing
        <3>2. ASSUME NEW r \in Candidates, RequestLeadership(d, r) PROVE job'[d].term # t
            BY <1>s, <3>2, Starts
        <3> QED BY <2>2, <3>1, <3>2, ElectingStep
    <2> QED BY <1>1, <2>1, <2>2 DEF Asks, Electing
<1>2. ASSUME NEW u \in Terms, NEW w \in Values, u >= t, NEW c \in Callers, New(c, u, s, w) PROVE w = v
    <2>0. u \in Nat
        BY TypeFacts
    <2>1. CASE NewFound(c, u, s, w)
        <3>1. /\ job[c].asked = Members /\ job[c].phase = "sync" /\ u = job[c].term
              /\ job[c].merged \in Log /\ job[c].merged[s].value = w
              /\ Known(job[c].merged[s].term, s, w)
            BY <2>1, NewIsFound
        <3>2. u > t
            BY <1>2, <1>s, <2>0, <3>1 DEF Asks
        <3>3. ASSUME NEW q \in job[c].yes, q > job[c].asked PROVE FALSE
            <4>1. q \in Replicas
                BY DEF TypeOK, Job
            <4>2. q <= Members /\ q \in Nat /\ Members \in Nat
                BY <4>1, TypeFacts
            <4> QED BY <3>1, <3>3, <4>2
        <3>4. job[c].merged[s].term >= t
            BY <1>s, <3>1, <3>2, <3>3
        <3>5. job[c].merged[s].term \in Terms
            BY <1>e, <3>1, <3>4
        <3> QED BY <1>s, <3>1, <3>4, <3>5
    <2>2. CASE NewDriven(c, u, s, w) \/ NewTaken(c, u, s, w)
        <3>0. PICK r : r = job[c].at
            OBVIOUS
        <3>1. /\ r \in Replicas /\ u = term[r] /\ Leads(r) /\ ~Pending(r, s) /\ ~Syncing(r)
              /\ \/ log[r][s] # NoEntry /\ log[r][s].value = w
                 \/ s = nextSlot[r]
            BY <1>0, <2>2, <3>0, NewIsDriven
        <3>2. nextSlot[r] > s
            BY <1>2, <1>s, <1>l, <1>m, <2>0, <3>1
        <3>3. log[r][s] # NoEntry /\ log[r][s].value = w
            BY <1>s, <3>1, <3>2
        <3>4. CASE u = t
            BY <1>m, <3>1, <3>3, <3>4
        <3>5. CASE u > t
            <4>1. log[r][s].term >= t
                BY <1>l, <3>1, <3>5
            <4>2. log[r] \in Log
                BY <3>1 DEF TypeOK
            <4>3. log[r][s].term \in Terms
                BY <1>e, <4>1, <4>2
            <4>4. Known(log[r][s].term, s, w)
                BY <3>1, <3>3 DEF Known, Held
            <4> QED BY <1>s, <4>1, <4>3, <4>4
        <3> QED BY <1>2, <1>s, <2>0, <3>4, <3>5
    <2> QED BY <1>2, <2>1, <2>2 DEF New
<1>3. ASSUME NEW u \in Terms, NEW w \in Values, Known(u, s, w)', u >= t PROVE w = v
    BY <1>2, <1>3, <1>s, KnownStep
<1>4. ASSUME NEW d \in Callers, job'[d].phase = "sync", job'[d].term > t
      PROVE  \/ job'[d].merged[s].term >= t
             \/ \E q \in job'[d].yes : q > job'[d].asked /\ log'[q][s].term >= t
    <2>y. job[d].yes \in SUBSET Replicas /\ job[d].asked \in Nat /\ job[d].term \in Nat
        BY TypeFacts DEF TypeOK, Job
    <2>1. CASE Win(d)
        <3>0. /\ job'[d].term = job[d].term /\ job'[d].yes = job[d].yes /\ job'[d].asked = 0
              /\ IsQuorum(job[d].yes) /\ \A q \in job[d].yes : term[q] >= job[d].term
            BY <2>1, Wins
        <3>1. Protects(t, s) \in SUBSET Replicas
            BY DEF Protects
        <3>2. PICK q \in job[d].yes : q \in Protects(t, s)
            BY <2>y, <3>0, <3>1, QuorumsMeet
        <3>3. q \in Replicas /\ q > 0 /\ term[q] \in Nat /\ term[q] >= job[d].term
            BY <2>y, <3>0, <3>2, TypeFacts
        <3>4. ~(term[q] <= t)
            BY <1>4, <1>s, <2>y, <3>0, <3>3
        <3>5. log[q][s].term >= t
            BY <3>2, <3>4 DEF Protects
        <3>6. log'[q][s].term >= t
            BY <1>g, <1>s, <3>3, <3>5
        <3> QED BY <3>0, <3>3, <3>6
    <2>2. CASE ~Win(d)
        <3>1. /\ job[d].phase = "sync" /\ job'[d].term = job[d].term /\ job'[d].yes = job[d].yes
              /\ Sync(d) \/ (job'[d].merged = job[d].merged /\ job'[d].asked = job[d].asked)
            BY <1>4, <2>2, SyncingStep DEF SameCall
        <3>2. \/ job[d].merged[s].term >= t
              \/ \E q \in job[d].yes : q > job[d].asked /\ log[q][s].term >= t
            BY <1>4, <1>s, <3>1
        <3>3. CASE job'[d].merged = job[d].merged /\ job'[d].asked = job[d].asked
            BY <1>g, <1>s, <2>y, <3>1, <3>2, <3>3
        <3>4. CASE Sync(d)
            <4> DEFINE n == Next1(d)
            <4>1. /\ n \in Replicas /\ n = job[d].asked + 1 /\ job'[d].asked = n
                  /\ \/ job'[d].merged = Merge(job[d].merged, log[n])
                     \/ job'[d].merged = job[d].merged /\ n \notin job[d].yes
                BY <3>4, SyncEffect DEF Complete, CompleteConditions
            <4> HIDE DEF n
            <4>2. job[d].merged \in Log /\ log[n] \in Log
                BY <4>1 DEF TypeOK, Job
            <4>3. /\ Merge(job[d].merged, log[n]) \in Log
                  /\ Merge(job[d].merged, log[n])[s].term >= job[d].merged[s].term
                  /\ Merge(job[d].merged, log[n])[s].term >= log[n][s].term
                BY <4>2, MergeFields
            <4>4. PICK l \in Log : l = Merge(job[d].merged, log[n])
                BY <4>3
            <4>5. l[s].term \in Nat /\ job[d].merged[s].term \in Nat /\ log[n][s].term \in Nat
                BY <4>2, TypeFacts DEF Log, Entry, NoEntry
            <4>6. CASE job[d].merged[s].term >= t
                BY <1>s, <4>1, <4>3, <4>4, <4>5, <4>6
            <4>7. ASSUME NEW q \in job[d].yes, q > job[d].asked, log[q][s].term >= t
                  PROVE  \/ job'[d].merged[s].term >= t
                         \/ q > job'[d].asked /\ log'[q][s].term >= t
                <5>1. q \in Replicas /\ q \in Nat
                    BY <2>y, TypeFacts
                <5>2. CASE q = n
                    BY <1>s, <4>1, <4>3, <4>4, <4>5, <4>7, <5>2
                <5>3. CASE q # n
                    <6>1. q > job'[d].asked
                        BY <2>y, <4>1, <4>7, <5>1, <5>3
                    <6> QED BY <1>g, <1>s, <4>7, <5>1, <6>1
                <5> QED BY <5>2, <5>3
            <4> QED BY <3>1, <3>2, <4>6, <4>7
        <3> QED BY <3>1, <3>3, <3>4
    <2> QED BY <2>1, <2>2
<1>5. ASSUME NEW r \in Replicas, Leads(r)', term'[r] > t
      PROVE  Syncing(r)' \/ (nextSlot'[r] > s /\ (log'[r][s].term >= t \/ Pending(r, s)'))
    <2>1. ASSUME NEW c \in Callers, Win(c), job[c].at = r, UNCHANGED term, term[r] = job[c].term
          PROVE  Syncing(r)'
        BY <2>1, Wins DEF Syncing
    <2>2. CASE Leads(r) /\ term'[r] = term[r]
        <3>0. term[r] > t
            BY <1>5, <2>2
        <3>1. CASE Syncing(r)
            <4>1. PICK d \in Callers : job[d].phase = "sync" /\ job[d].at = r /\ job[d].term = term[r]
                BY <3>1 DEF Syncing
            <4>2. CASE SyncDone(d)
                <5>1. job[d].merged \in Log /\ job[d].asked = Members
                    BY <4>2, SyncDoneEffect DEF TypeOK, Job
                <5>2. ASSUME NEW q \in job[d].yes, q > job[d].asked PROVE FALSE
                    <6>1. q \in Replicas
                        BY DEF TypeOK, Job
                    <6>2. q <= Members /\ q \in Nat /\ Members \in Nat
                        BY <6>1, TypeFacts
                    <6> QED BY <5>1, <5>2, <6>2
                <5>3. job[d].merged[s].term >= t
                    BY <1>s, <3>0, <4>1, <5>2
                <5>4. job[d].merged[s] # NoEntry /\ job[d].merged[s].value \in Values
                    BY <1>e, <5>1, <5>3
                <5>5. \E e \in Entries(job[d].merged) : e.slot = s
                    BY <5>1, <5>4, EntriesFields
                <5>6. NewFound(d, term[r], s, job[d].merged[s].value)
                    BY <4>1, <4>2, <5>4, <5>5 DEF NewFound
                <5>7. /\ job'[d].at = r /\ job'[d].term = term[r] /\ job'[d].calls = "election"
                      /\ job'[d].phase = "drive" /\ job'[d].asked = 0
                      /\ \E e \in job'[d].todo : e.slot = s
                      /\ nextSlot'[r] > s
                    <6>1. term[r] \in Terms
                        BY DEF TypeOK
                    <6> QED BY <4>1, <5>4, <5>6, <6>1, NewIsFound
                <5>8. Awaits(job'[d], r, s)
                    BY <5>7, TypeFacts DEF Awaits
                <5> QED BY <2>2, <5>7, <5>8 DEF Pending
            <4>3. CASE ~SyncDone(d)
                <5>1. job'[d].phase = "sync" /\ SameCall(job'[d], job[d])
                    BY <4>1, <4>3, SyncStays
                <5> QED BY <2>2, <4>1, <5>1 DEF Syncing, SameCall
            <4> QED BY <4>2, <4>3
        <3>2. CASE ~Syncing(r)
            <4>1. nextSlot[r] > s /\ (log[r][s].term >= t \/ Pending(r, s))
                BY <1>l, <2>2, <3>0, <3>2
            <4>2. nextSlot'[r] > s
                BY <1>g, <1>s, <4>1
            <4>3. CASE log[r][s].term >= t
                BY <1>g, <1>s, <4>2, <4>3
            <4>4. CASE Pending(r, s) /\ ~Pending(r, s)'
                <5>1. PICK m \in Requests : m.term = term[r] /\ log'[r][s] = [term |-> m.term, value |-> m.value]
                    BY <2>2, <4>4, PendingStep
                <5>2. log'[r][s].term >= t
                    BY <1>g, <1>s, <3>0, <5>1
                <5> QED BY <4>2, <5>2
            <4> QED BY <4>1, <4>2, <4>3, <4>4
        <3> QED BY <3>1, <3>2
    <2> QED BY <1>5, <2>1, <2>2, LeadsStep
<1>6. ASSUME NEW r \in Replicas, Leads(r)', term'[r] = t
      PROVE  nextSlot'[r] > s /\ (log'[r][s] = NoEntry \/ log'[r][s].value = v \/ Pending(r, s)')
    <2>1. ASSUME NEW c \in Callers, Win(c), UNCHANGED term, term[r] = job[c].term PROVE FALSE
        BY <1>6, <1>s, <2>1, Wins DEF Asks, Electing
    <2>2. Leads(r) /\ term'[r] = term[r]
        BY <1>6, <2>1, LeadsStep
    <2>3. nextSlot[r] > s /\ (log[r][s] = NoEntry \/ log[r][s].value = v \/ Pending(r, s))
        BY <1>6, <1>m, <2>2
    <2>4. \A w \in Values : Known(term[r], s, w) => w = v
        BY <1>6, <1>s, <2>2
    <2>5. nextSlot'[r] > s
        BY <1>g, <1>s, <2>3
    <2> QED BY <2>2, <2>3, <2>4, <2>5, OwnEntryStep
<1> QED BY <1>1, <1>3, <1>4, <1>5, <1>6, <1>s, HistoryGrows DEF Safe

(* The loop over the replicas starts afresh for an entry, or goes on. *)
LEMMA DrivingStep ==
    ASSUME BaseInv, Next, NEW c \in Callers, job'[c].phase = "drive"
    PROVE  \/ job'[c].asked = 0 /\ job'[c].yes = {}
           \/ job[c].phase = "drive" /\ SameCall(job'[c], job[c]) /\ job'[c].todo = job[c].todo
              /\ job'[c].asked = job[c].asked /\ job'[c].yes = job[c].yes
           \/ job[c].phase = "drive" /\ SameCall(job'[c], job[c]) /\ job'[c].todo = job[c].todo
              /\ job'[c].asked = Next1(c) /\ Next1(c) \in Replicas
              /\ \/ AskAccept(c) /\ YesFrom(job'[c], job[c], Next1(c))
                 \/ NoAccept(c) /\ job'[c].yes = job[c].yes
<1> USE DEF BaseInv
<1>1. CASE job'[c] = job[c]
    BY <1>1 DEF SameCall
<1>2. ~\E r \in Candidates : RequestLeadership(c, r) \/ StartPropose(c, r)
    BY RequestLeadershipEffect, StartProposeEffect
<1>3. ~(AskVote(c) \/ NoVote(c))
    BY VoteEffect, AskedEffect DEF GoesOn
<1>4. ~Win(c) /\ ~Sync(c)
    BY WinEffect, SyncEffect
<1>5. job'[c] # Idle
    BY IdleFields
<1>6. ~Lose(c)
    BY <1>5, EndedEffect DEF Lose
<1>7. CASE SyncDone(c) \/ Redrive(c)
    BY <1>5, <1>7, SyncDoneEffect, RedriveEffect DEF Driving1
<1>8. CASE TakeSlot(c)
    BY <1>5, <1>8, TakeSlotEffect DEF Driving1
<1>9. CASE AskAccept(c) \/ NoAccept(c)
    <2>1. /\ (AskAccept(c) /\ AskedYes(c)) \/ AskedNo(c)
          /\ job[c].phase = "drive" /\ Next1(c) \in Replicas
        BY <1>9, AcceptEffect
    <2>2. /\ GoesOn(job'[c], job[c]) /\ job'[c].asked = Next1(c)
          /\ YesFrom(job'[c], job[c], Next1(c))
        BY <2>1, AskedEffect DEF Next1
    <2>3. AskAccept(c) \/ job'[c].yes = job[c].yes
        BY <2>1, AskedNoEffect
    <2> QED BY <1>9, <2>1, <2>2, <2>3 DEF GoesOn
<1>10. ~Chosen(c)
    BY ChosenEffect
<1>11. CASE NotChosen(c)
    BY <1>5, <1>11, NotChosenEffect DEF Driving1
<1>12. CASE Notify(c) \/ NotifyLost(c)
    BY <1>5, <1>12, NotifyEffect DEF Driving1
<1>13. CASE \E q \in Replicas : VoteEnds(q)
    <2>1. /\ SameCall(job'[c], job[c]) /\ job'[c].phase = job[c].phase /\ job'[c].yes = job[c].yes
          /\ job'[c].todo = job[c].todo /\ job'[c].asked = job[c].asked
        BY <1>13, VoteEndsEffect
    <2> QED BY <2>1
<1> QED BY <1>1, <1>2, <1>3, <1>4, <1>6, <1>7, <1>8, <1>9, <1>10, <1>11, <1>12, <1>13, CallsStep

(* A call that notifies was notifying, or has just found a quorum. *)
LEMMA CommittingStep ==
    ASSUME BaseInv, Next, NEW c \in Callers, job'[c].phase = "commit"
    PROVE  /\ job'[c].term = job[c].term /\ job'[c].todo = job[c].todo
           /\ job[c].phase = "commit" \/ Chosen(c)
<1> USE DEF BaseInv
<1>1. CASE job'[c] = job[c]
    BY <1>1
<1>2. ~\E r \in Candidates : RequestLeadership(c, r) \/ StartPropose(c, r)
    BY RequestLeadershipEffect, StartProposeEffect
<1>3. ~(AskVote(c) \/ NoVote(c))
    BY VoteEffect, AskedEffect DEF GoesOn
<1>4. job'[c] # Idle
    BY IdleFields
<1>5. ~Win(c) /\ ~Sync(c) /\ ~Lose(c)
    BY <1>4, WinEffect, SyncEffect, EndedEffect DEF Lose
<1>6. ~SyncDone(c) /\ ~Redrive(c)
    BY <1>4, SyncDoneEffect, RedriveEffect DEF Driving1
<1>7. ~TakeSlot(c)
    BY <1>4, TakeSlotEffect DEF Driving1
<1>8. ~(AskAccept(c) \/ NoAccept(c))
    BY AcceptEffect, AskedEffect DEF GoesOn
<1>9. CASE Chosen(c)
    BY <1>9, ChosenEffect DEF SameCall
<1>10. ~NotChosen(c)
    BY <1>4, NotChosenEffect DEF Driving1
<1>11. CASE Notify(c) \/ NotifyLost(c)
    BY <1>4, <1>11, NotifyEffect DEF Driving1, SameCall
<1>12. CASE \E q \in Replicas : VoteEnds(q)
    <2>1. /\ SameCall(job'[c], job[c]) /\ job'[c].phase = job[c].phase /\ job'[c].todo = job[c].todo
        BY <1>12, VoteEndsEffect
    <2> QED BY <2>1 DEF SameCall
<1> QED BY <1>1, <1>2, <1>3, <1>5, <1>6, <1>7, <1>8, <1>9, <1>10, <1>11, <1>12, CallsStep

(* What is decided stays decided. *)
LEMMA DecidedStable ==
    ASSUME Unique', Complete', BaseInv, ElectionInv, LogInv, Next,
           NEW t \in Terms, NEW s \in Slots, NEW v \in Values, Decided(t, s, v)
    PROVE  Decided(t, s, v)'
<1> USE DEF BaseInv
<1>0. /\ IsQuorum(Holders(t, s)) /\ Safe(t, s, v)
      /\ \A r \in Replicas : Leads(r) /\ term[r] = t => log[r][s].term >= t
    BY DEF Decided
<1>t. TypeOK' /\ TermInv
    BY TypeStep DEF ElectionInv
<1>1. \A q \in Replicas : log[q][s].term >= t => log'[q][s].term >= t
    <2>1. TAKE q \in Replicas
    <2>2. log'[q][s].term >= log[q][s].term
        BY <1>t, LogGrows
    <2>3. \A l \in Log : l[s].term \in Nat
        BY TypeFacts DEF Log, Entry, NoEntry
    <2>4. log'[q][s].term \in Nat /\ log[q][s].term \in Nat /\ t \in Nat
        BY <1>t, <2>3, TypeFacts DEF TypeOK
    <2> QED BY <2>2, <2>4
<1>2. IsQuorum(Holders(t, s)')
    <2>1. Holders(t, s) \in SUBSET Holders(t, s)' /\ Holders(t, s)' \in SUBSET Replicas
        BY <1>1 DEF Holders
    <2> QED BY <1>0, <2>1, QuorumGrows
<1>3. Safe(t, s, v)'
    <2>1. Holders(t, s) \in SUBSET Protects(t, s) /\ Protects(t, s) \in SUBSET Replicas
        BY DEF Holders, Protects
    <2>2. IsQuorum(Protects(t, s))
        BY <1>0, <2>1, QuorumGrows
    <2> QED BY <1>0, <2>2, SafeStable
<1>4. ASSUME NEW r \in Replicas, Leads(r)', term'[r] = t PROVE log'[r][s].term >= t
    <2>1. ASSUME NEW c \in Callers, Win(c), UNCHANGED term, term[r] = job[c].term PROVE FALSE
        BY <1>0, <1>4, <2>1, Wins DEF Asks, Electing, Safe
    <2>2. Leads(r) /\ term'[r] = term[r]
        BY <1>4, <2>1, LeadsStep
    <2> QED BY <1>0, <1>1, <1>4, <2>2
<1> QED BY <1>2, <1>3, <1>4 DEF Decided

(* Every step keeps DriveInv: a call that may still find a quorum is safe. *)
LEMMA DriveInvStep ==
    ASSUME Unique', Complete', BaseInv, ElectionInv, LogInv, DriveInv, Next
    PROVE  DriveInv'
<1> USE DEF BaseInv
<1>t. TypeOK' /\ TermInv
    BY TypeStep DEF ElectionInv
<1>s. SafeEntries'
    <2>1. (BaseInv /\ ElectionInv /\ LogInv)'
        BY ElectionStep, LogInvStep
    <2> QED BY <2>1, SafeFromQuorum, PTL
<1>1. SUFFICES ASSUME NEW c \in Callers, job'[c].phase = "drive", job'[c].todo # {},
                      NEW e, e = First(job'[c].todo)
               PROVE  /\ IsQuorum(Possible(c)') => Safe(job[c].term, e.slot, e.value)'
                      /\ \A q \in job'[c].yes : log'[q][e.slot].term >= job'[c].term
                      /\ job'[c].at <= job'[c].asked =>
                            log'[job'[c].at][e.slot].term >= job'[c].term \/ term'[job'[c].at] > job'[c].term
    BY DEF DriveInv
<1>2. PICK t \in Terms : t = job'[c].term
    BY <1>t DEF TypeOK, Job
<1>3. e \in job'[c].todo /\ e \in Driven
    BY <1>1, <1>t, FirstIsLeast DEF TypeOK, Job
<1>4. PICK s \in Slots, v \in Values : s = e.slot /\ v = e.value
    BY <1>3 DEF Driven
<1>5. PICK r \in Replicas : r = job'[c].at
    BY <1>t DEF TypeOK, Job
<1>6. /\ t \in Nat /\ r \in Nat /\ r > 0 /\ job[c].asked \in Nat
      /\ \A q \in Replicas : /\ term[q] \in Nat /\ term'[q] \in Nat /\ term'[q] >= term[q]
                             /\ log[q][s].term \in Nat /\ log'[q][s].term \in Nat
                             /\ log'[q][s].term >= log[q][s].term
    <2>1. \A l \in Log : l[s].term \in Nat
        BY TypeFacts DEF Log, Entry, NoEntry
    <2>2. \A q \in Replicas : log[q][s].term \in Nat /\ log'[q][s].term \in Nat
        BY <1>t, <2>1 DEF TypeOK
    <2> QED BY <1>t, <2>2, TypeFacts, TermGrows, LogGrows
<1>7. SUFFICES /\ IsQuorum(Possible(c)') => Safe(t, s, v)'
               /\ \A q \in job'[c].yes : log'[q][s].term >= t
               /\ r <= job'[c].asked => log'[r][s].term >= t \/ term'[r] > t
    BY <1>2, <1>4, <1>5
<1>8. CASE job'[c].asked = 0 /\ job'[c].yes = {}
    <2>1. ASSUME IsQuorum(Possible(c)') PROVE Safe(t, s, v)'
        <3>1. Possible(c)' \in SUBSET Below(t)' /\ Below(t)' \in SUBSET Replicas
            BY <1>2, <1>8 DEF Possible, Below
        <3>2. IsQuorum(Below(t)')
            BY <2>1, <3>1, QuorumGrows
        <3>3. IsQuorum(Below(job[c].term)')
            BY <1>2, <3>2 DEF Below
        <3>4. Safe(job[c].term, e.slot, e.value)'
            BY <1>s, <1>1, <1>3, <3>3 DEF SafeEntries
        <3> QED BY <1>2, <1>4, <3>4 DEF Safe
    <2>2. ~(r <= job'[c].asked)
        BY <1>6, <1>8
    <2> QED BY <1>8, <2>1, <2>2
<1>9. CASE /\ job[c].phase = "drive" /\ SameCall(job'[c], job[c]) /\ job'[c].todo = job[c].todo
           /\ \/ job'[c].asked = job[c].asked /\ job'[c].yes = job[c].yes
              \/ /\ job'[c].asked = Next1(c) /\ Next1(c) \in Replicas
                 /\ \/ AskAccept(c) /\ YesFrom(job'[c], job[c], Next1(c))
                    \/ NoAccept(c) /\ job'[c].yes = job[c].yes
    <2>1. /\ job[c].term = t /\ job[c].at = r /\ job[c].todo # {} /\ e = First(job[c].todo)
        BY <1>1, <1>2, <1>5, <1>9 DEF SameCall
    <2>2. /\ IsQuorum(Possible(c)) => Safe(t, s, v)
          /\ \A q \in job[c].yes : log[q][s].term >= t
          /\ r <= job[c].asked => log[r][s].term >= t \/ term[r] > t
        BY <1>4, <1>9, <2>1 DEF DriveInv
    <2>y. job[c].yes \in SUBSET Replicas /\ Next1(c) = job[c].asked + 1
        BY DEF TypeOK, Job, Next1
    <2>3. ASSUME AskAccept(c), Next1(c) \in Replicas
          PROVE  /\ term[Next1(c)] <= t /\ log'[Next1(c)][s].term >= t
        <3> DEFINE m == Request(c)
        <3>1. Driving(c) /\ Accept(m)
            BY <2>3 DEF AskAccept
        <3>2. m \in Requests /\ m.to = Next1(c) /\ m.slot = s /\ m.term = t
            BY <1>4, <2>1, <3>1, RequestFields
        <3> HIDE DEF m
        <3>3. log'[Next1(c)][s] = [term |-> m.term, value |-> m.value] /\ m.term >= term[Next1(c)]
            BY <3>1, <3>2, AcceptedEffect
        <3>4. log'[Next1(c)][s].term = t
            BY <3>2, <3>3
        <3> QED BY <1>6, <2>3, <3>2, <3>3, <3>4
    <2>4. ASSUME NEW q \in job'[c].yes, q \notin job[c].yes
          PROVE  AskAccept(c) /\ q = Next1(c) /\ Next1(c) \in Replicas
        BY <1>9, <2>4 DEF YesFrom
    <2>5. ASSUME NEW q \in Possible(c)' PROVE q \in Possible(c)
        <3>1. CASE q \in job[c].yes
            BY <3>1 DEF Possible
        <3>2. CASE q \in job'[c].yes /\ q \notin job[c].yes
            <4>1. q \in Replicas /\ term[q] <= t /\ q > job[c].asked
                BY <1>6, <2>3, <2>4, <2>y, <3>2
            <4> QED BY <2>1, <4>1 DEF Possible, Below
        <3>3. CASE q \notin job'[c].yes
            <4>1. q \in Replicas /\ term'[q] <= t /\ q > job'[c].asked /\ q \in Nat
                BY <1>2, <2>5, <3>3, TypeFacts DEF Possible, Below
            <4>2. term[q] <= t /\ q > job[c].asked
                BY <1>6, <1>9, <2>y, <4>1
            <4> QED BY <2>1, <4>1, <4>2 DEF Possible, Below
        <3> QED BY <3>1, <3>2, <3>3
    <2>6. ASSUME IsQuorum(Possible(c)') PROVE Safe(t, s, v)'
        <3>1. /\ Possible(c)' \in SUBSET Possible(c) /\ Possible(c) \in SUBSET Replicas
              /\ Possible(c) \in SUBSET Protects(t, s) /\ Protects(t, s) \in SUBSET Replicas
            BY <2>1, <2>2, <2>5, <2>y DEF Possible, Below, Protects
        <3>2. IsQuorum(Possible(c)) /\ IsQuorum(Protects(t, s))
            BY <2>6, <3>1, QuorumGrows
        <3> QED BY <2>2, <3>2, SafeStable
    <2>7. ASSUME NEW q \in job'[c].yes PROVE log'[q][s].term >= t
        <3>1. CASE q \in job[c].yes
            <4>1. log[q][s].term >= t /\ q \in Replicas
                BY <2>2, <2>y, <3>1
            <4>2. log'[q][s].term >= log[q][s].term /\ log'[q][s].term \in Nat /\ log[q][s].term \in Nat
                BY <1>6, <4>1
            <4> QED BY <1>6, <4>1, <4>2
        <3>2. CASE q \notin job[c].yes
            BY <2>3, <2>4, <2>7, <3>2
        <3> QED BY <3>1, <3>2
    <2>8. ASSUME r <= job'[c].asked PROVE log'[r][s].term >= t \/ term'[r] > t
        <3>1. CASE r <= job[c].asked
            BY <1>6, <2>2, <3>1
        <3>2. CASE ~(r <= job[c].asked)
            <4>1. r = Next1(c) /\ (AskAccept(c) \/ NoAccept(c))
                BY <1>6, <1>9, <2>8, <2>y, <3>2
            <4>2. ASSUME NoAccept(c) PROVE term'[r] > t
                <5>1. ~MayFail(c, r)
                    BY <2>1 DEF MayFail
                <5>2. t < term[r]
                    BY <2>1, <4>1, <4>2, <5>1 DEF NoAccept
                <5> QED BY <1>6, <5>2
            <4> QED BY <2>3, <4>1, <4>2
        <3> QED BY <3>1, <3>2
    <2> QED BY <2>6, <2>7, <2>8
<1> QED BY <1>1, <1>8, <1>9, DrivingStep

(* What a call has got chosen is decided. *)
LEMMA ChosenIsDecided ==
    ASSUME BaseInv, ElectionInv, DriveInv, NEW c \in Callers, Chosen(c)
    PROVE  LET e == First(job[c].todo) IN
           /\ e.slot \in Slots /\ e.value \in Values /\ job[c].term \in Terms
           /\ Decided(job[c].term, e.slot, e.value)
           /\ job'[c].phase = "commit" /\ job'[c].term = job[c].term /\ job'[c].todo = job[c].todo
           /\ chosen' = [chosen EXCEPT ![e.slot] = chosen[e.slot] \cup {e.value}]
<1> USE DEF BaseInv
<1> DEFINE e == First(job[c].todo)  t == job[c].term  s == e.slot  r == job[c].at
<1>1. /\ job[c].phase = "drive" /\ job[c].todo # {} /\ job[c].asked = Members /\ IsQuorum(job[c].yes)
      /\ e \in Driven
      /\ job'[c].phase = "commit" /\ job'[c].term = t /\ job'[c].todo = job[c].todo
    BY ChosenEffect DEF SameCall
<1>2. s \in Slots /\ e.value \in Values /\ t \in Terms /\ r \in Replicas
      /\ job[c].yes \in SUBSET Replicas
    BY <1>1 DEF Driven, TypeOK, Job
<1>3. /\ IsQuorum(Possible(c)) => Safe(t, s, e.value)
      /\ \A q \in job[c].yes : log[q][s].term >= t
      /\ r <= job[c].asked => log[r][s].term >= t \/ term[r] > t
    BY <1>1 DEF DriveInv
<1>4. Safe(t, s, e.value)
    <2>1. job[c].yes \in SUBSET Possible(c) /\ Possible(c) \in SUBSET Replicas
        BY <1>2 DEF Possible, Below
    <2> QED BY <1>1, <1>3, <2>1, QuorumGrows
<1>5. IsQuorum(Holders(t, s))
    <2>1. job[c].yes \in SUBSET Holders(t, s) /\ Holders(t, s) \in SUBSET Replicas
        BY <1>2, <1>3 DEF Holders
    <2> QED BY <1>1, <2>1, QuorumGrows
<1>6. ASSUME NEW q \in Replicas, Leads(q), term[q] = t PROVE log[q][s].term >= t
    <2>1. q = r
        BY <1>1, <1>6 DEF ElectionInv, OwnInv, Serving
    <2>2. r <= job[c].asked /\ ~(term[r] > t)
        BY <1>1, <1>2, <1>6, <2>1, TypeFacts
    <2> QED BY <1>3, <2>1, <2>2
<1>7. Decided(t, s, e.value)
    BY <1>4, <1>5, <1>6 DEF Decided
<1>8. chosen' = [chosen EXCEPT ![s] = chosen[s] \cup {e.value}]
    BY DEF Chosen
<1> QED BY <1>1, <1>2, <1>7, <1>8

(* Values are chosen by Chosen only. *)
LEMMA ChosenStep ==
    ASSUME TypeOK, Next
    PROVE  UNCHANGED chosen \/ \E c \in Callers : Chosen(c)
<1> USE DEF history
<1>1. ASSUME NEW c \in Callers, NEW r \in Candidates, RequestLeadership(c, r) \/ StartPropose(c, r)
      PROVE  UNCHANGED chosen
    BY <1>1 DEF RequestLeadership, StartPropose
<1>2. ASSUME NEW c \in Callers, AskVote(c) \/ NoVote(c) \/ Win(c) \/ Lose(c) \/ Sync(c) \/ SyncDone(c)
                                \/ Redrive(c) \/ TakeSlot(c)
      PROVE  UNCHANGED chosen
    BY <1>2 DEF AskVote, NoVote, Win, Lose, Sync, SyncDone, Redrive, TakeSlot
<1>3. ASSUME NEW c \in Callers, AskAccept(c) \/ NoAccept(c) \/ NotChosen(c) \/ Notify(c) \/ NotifyLost(c)
      PROVE  UNCHANGED chosen
    BY <1>3 DEF AskAccept, NoAccept, NotChosen, Notify, NotifyLost
<1>4. ASSUME NEW r \in Replicas, LeaseEnds(r) \/ VoteEnds(r) PROVE UNCHANGED chosen
    BY <1>4 DEF LeaseEnds, VoteEnds
<1>5. ASSUME NEW m \in late, LateAccept(m) PROVE UNCHANGED chosen
    BY <1>5 DEF LateAccept
<1>6. ASSUME NEW m \in lateVotes, LateVote(m) PROVE UNCHANGED chosen
    BY <1>6 DEF LateVote
<1>7. ASSUME NEW m \in lateCommits, LateCommit(m) PROVE UNCHANGED chosen
    BY <1>7 DEF LateCommit
<1> QED BY <1>1, <1>2, <1>3, <1>4, <1>5, <1>6, <1>7 DEF Next

(* Slots are committed and applied by the notifications only, delivered in time or
   late. *)
LEMMA ApplyingStep ==
    ASSUME TypeOK, Next
    PROVE  \/ UNCHANGED <<committed, applied>>
           \/ \E c \in Callers : Notify(c)
           \/ \E m \in lateCommits : LateCommit(m)
<1> USE DEF applying
<1>1. ASSUME NEW c \in Callers, NEW r \in Candidates, RequestLeadership(c, r) \/ StartPropose(c, r)
      PROVE  UNCHANGED <<committed, applied>>
    BY <1>1 DEF RequestLeadership, StartPropose
<1>2. ASSUME NEW c \in Callers, AskVote(c) \/ NoVote(c) \/ Win(c) \/ Lose(c) \/ Sync(c) \/ SyncDone(c)
                                \/ Redrive(c) \/ TakeSlot(c)
      PROVE  UNCHANGED <<committed, applied>>
    BY <1>2 DEF AskVote, NoVote, Win, Lose, Sync, SyncDone, Redrive, TakeSlot
<1>3. ASSUME NEW c \in Callers, AskAccept(c) \/ NoAccept(c) \/ NotChosen(c) \/ Chosen(c) \/ NotifyLost(c)
      PROVE  UNCHANGED <<committed, applied>>
    BY <1>3 DEF AskAccept, NoAccept, NotChosen, Chosen, NotifyLost
<1>4. ASSUME NEW r \in Replicas, LeaseEnds(r) \/ VoteEnds(r) PROVE UNCHANGED <<committed, applied>>
    BY <1>4 DEF LeaseEnds, VoteEnds
<1>5. ASSUME NEW m \in late, LateAccept(m) PROVE UNCHANGED <<committed, applied>>
    BY <1>5 DEF LateAccept
<1>6. ASSUME NEW m \in lateVotes, LateVote(m) PROVE UNCHANGED <<committed, applied>>
    BY <1>6 DEF LateVote
<1> QED BY <1>1, <1>2, <1>3, <1>4, <1>5, <1>6 DEF Next

(* A commit that waits was waiting, or its sender has just given up. *)
LEMMA LateCommitsStep ==
    ASSUME TypeOK, Next, NEW m \in lateCommits'
    PROVE  \/ m \in lateCommits
           \/ \E c \in Callers : /\ NotifyLost(c)
                               /\ m.slot = First(job[c].todo).slot /\ m.term = job[c].term
<1> USE DEF lates
<1>1. ASSUME NEW c \in Callers, NotifyLost(c), m \notin lateCommits
      PROVE  m.slot = First(job[c].todo).slot /\ m.term = job[c].term
    BY <1>1 DEF NotifyLost, Waiting
<1>2. ASSUME NEW c \in Callers, NEW r \in Candidates, RequestLeadership(c, r) \/ StartPropose(c, r)
      PROVE  UNCHANGED lateCommits
    BY <1>2 DEF RequestLeadership, StartPropose
<1>3. ASSUME NEW c \in Callers, AskVote(c) \/ NoVote(c) \/ Win(c) \/ Lose(c) \/ Sync(c) \/ SyncDone(c)
                                \/ Redrive(c) \/ TakeSlot(c)
      PROVE  UNCHANGED lateCommits
    BY <1>3 DEF AskVote, NoVote, Win, Lose, Sync, SyncDone, Redrive, TakeSlot
<1>4. ASSUME NEW c \in Callers, AskAccept(c) \/ NoAccept(c) \/ Chosen(c) \/ NotChosen(c) \/ Notify(c)
      PROVE  UNCHANGED lateCommits
    BY <1>4 DEF AskAccept, NoAccept, Chosen, NotChosen, Notify
<1>5. ASSUME NEW r \in Replicas, LeaseEnds(r) \/ VoteEnds(r) PROVE UNCHANGED lateCommits
    BY <1>5 DEF LeaseEnds, VoteEnds
<1>6. ASSUME NEW l \in lateVotes, LateVote(l) PROVE UNCHANGED lateCommits
    BY <1>6 DEF LateVote
<1>7. ASSUME NEW l \in late, LateAccept(l) PROVE UNCHANGED lateCommits
    BY <1>7 DEF LateAccept
<1>8. ASSUME NEW l \in lateCommits, LateCommit(l) PROVE m \in lateCommits
    BY <1>8 DEF LateCommit
<1> QED BY <1>1, <1>2, <1>3, <1>4, <1>5, <1>6, <1>7, <1>8 DEF Next

(* Every step keeps CommitInv: what is being notified is decided. *)
LEMMA CommitInvStep ==
    ASSUME Unique', Complete', BaseInv, ElectionInv, LogInv, DriveInv, CommitInv, Next
    PROVE  CommitInv'
<1> USE DEF BaseInv
<1>1. SUFFICES ASSUME NEW c \in Callers, job'[c].phase = "commit", NEW e, e = First(job'[c].todo)
               PROVE  Decided(job[c].term, e.slot, e.value)' /\ e.value \in chosen'[e.slot]
    BY DEF CommitInv
<1>2. job'[c].term = job[c].term /\ job'[c].todo = job[c].todo
      /\ (job[c].phase = "commit" \/ Chosen(c))
    BY <1>1, CommittingStep
<1>3. e \in Driven /\ job[c].term \in Terms
    <2>1. JobInv' /\ TypeOK'
        BY TypeStep, JobInvStep
    <2>2. job'[c].todo # {} /\ job'[c].todo \in SUBSET Driven
        BY <1>1, <2>1 DEF JobInv, JobOK, TypeOK, Job
    <2> QED BY <1>1, <2>2, FirstIsLeast DEF TypeOK, Job
<1>4. PICK t \in Terms, s \in Slots, v \in Values : t = job[c].term /\ s = e.slot /\ v = e.value
    BY <1>3 DEF Driven
<1>5. CASE job[c].phase = "commit"
    <2>1. Decided(t, s, v) /\ v \in chosen[s]
        BY <1>1, <1>2, <1>4, <1>5 DEF CommitInv
    <2>2. Decided(t, s, v)' /\ v \in chosen'[s]
        BY <2>1, DecidedStable, HistoryGrows
    <2> QED BY <1>2, <1>4, <2>2 DEF Decided, Safe, Holders
<1>6. CASE Chosen(c)
    <2>1. Decided(t, s, v) /\ chosen' = [chosen EXCEPT ![s] = chosen[s] \cup {v}]
        BY <1>1, <1>2, <1>4, <1>6, ChosenIsDecided
    <2>2. Decided(t, s, v)' /\ v \in chosen'[s]
        BY <2>1, DecidedStable DEF TypeOK
    <2> QED BY <1>2, <1>4, <2>2 DEF Decided, Safe, Holders
<1> QED BY <1>2, <1>5, <1>6

(* Every step keeps ChosenInv: what is chosen is decided. *)
LEMMA ChosenInvStep ==
    ASSUME Unique', Complete', BaseInv, ElectionInv, LogInv, DriveInv, ChosenInv, Next
    PROVE  ChosenInv'
<1> USE DEF BaseInv
<1>1. SUFFICES ASSUME NEW s \in Slots, NEW v \in chosen'[s] PROVE \E t \in Terms : Decided(t, s, v)'
    BY DEF ChosenInv
<1>2. v \in Values
    BY TypeStep DEF TypeOK
<1>3. \E t \in Terms : Decided(t, s, v)
    <2>1. CASE v \in chosen[s]
        BY <2>1 DEF ChosenInv
    <2>2. ASSUME v \notin chosen[s], NEW c \in Callers, Chosen(c) PROVE \E t \in Terms : Decided(t, s, v)
        <3>1. PICK e : e = First(job[c].todo)
            OBVIOUS
        <3>2. /\ chosen' = [chosen EXCEPT ![e.slot] = chosen[e.slot] \cup {e.value}]
              /\ Decided(job[c].term, e.slot, e.value) /\ job[c].term \in Terms
            BY <2>2, <3>1, ChosenIsDecided
        <3>3. s = e.slot /\ v = e.value
            BY <1>1, <2>2, <3>2 DEF TypeOK
        <3> QED BY <3>2, <3>3
    <2> QED BY <1>1, <2>1, <2>2, ChosenStep
<1> QED BY <1>2, <1>3, DecidedStable

(* Every step keeps StrayInv: what a late commit is about is decided. *)
LEMMA StrayInvStep ==
    ASSUME Unique', Complete', BaseInv, ElectionInv, LogInv, CommitInv, StrayInv, Next
    PROVE  StrayInv'
<1> USE DEF BaseInv
<1>1. SUFFICES ASSUME NEW m \in lateCommits'
               PROVE  \E v \in chosen'[m.slot] : Decided(m.term, m.slot, v)'
    BY DEF StrayInv
<1>2. PICK t \in Terms, s \in Slots : t = m.term /\ s = m.slot
    BY TypeStep DEF TypeOK
<1>3. \E v \in chosen[s] : Decided(t, s, v)
    <2>1. CASE m \in lateCommits
        BY <1>2, <2>1 DEF StrayInv
    <2>2. ASSUME NEW c \in Callers, NotifyLost(c), s = First(job[c].todo).slot, t = job[c].term
          PROVE  \E v \in chosen[s] : Decided(t, s, v)
        <3>1. job[c].phase = "commit"
            BY <2>2, NotifyEffect
        <3> QED BY <2>2, <3>1 DEF CommitInv
    <2> QED BY <1>2, <2>1, <2>2, LateCommitsStep
<1>4. PICK v \in chosen[s] : Decided(t, s, v)
    BY <1>3
<1>5. v \in Values /\ v \in chosen'[s]
    BY <1>4, HistoryGrows DEF TypeOK
<1>6. Decided(t, s, v)'
    BY <1>4, <1>5, DecidedStable
<1> QED BY <1>2, <1>5, <1>6 DEF Decided, Safe, Holders

(* Every step keeps CommittedInv: a committed slot holds the decided value. *)
LEMMA CommittedInvStep ==
    ASSUME Unique', Complete', InRound',
           BaseInv, ElectionInv, LogInv, CommitInv, StrayInv, CommittedInv, Next
    PROVE  CommittedInv'
<1> USE DEF BaseInv
<1>1. SUFFICES ASSUME NEW r \in Replicas, NEW s \in committed'[r]
               PROVE  \E v \in chosen'[s], t \in Terms : Decided(t, s, v)' /\ log'[r][s].term >= t
    BY DEF CommittedInv
<1>2. s \in Slots
    BY TypeStep DEF TypeOK
<1>n. TypeOK' /\ \A q \in Replicas : log[q][s].term \in Nat
    BY <1>2, TypeStep, TypeFacts
<1>3. \E v \in chosen[s], t \in Terms : Decided(t, s, v) /\ log[r][s].term >= t
    <2>1. CASE s \in committed[r]
        BY <2>1 DEF CommittedInv
    <2>2. ASSUME s \notin committed[r], NEW q, NEW p, NEW t \in Terms, Committing(q, p, t),
                 \E v \in chosen[p] : Decided(t, p, v)
          PROVE  \E v \in chosen[s], u \in Terms : Decided(u, s, v) /\ log[r][s].term >= u
        <3>1. q \in Replicas /\ p \in Slots /\ Commit(q, p, t)
            BY <2>2 DEF Committing
        <3>2. \/ UNCHANGED <<committed, applied>>
              \/ /\ InRound' => ~(log[q][p].term < t)
                 /\ committed' = [committed EXCEPT ![q] = @ \cup {p}]
            BY <3>1, CommitEffect DEF InRound
        <3>3. committed' = [committed EXCEPT ![q] = @ \cup {p}]
            BY <1>1, <2>2, <3>2
        <3>4. r = q /\ s = p
            BY <1>1, <2>2, <3>1, <3>3 DEF TypeOK
        <3>5. committed # committed'
            BY <1>1, <2>2
        <3>6. ~(log[q][p].term < t)
            BY <3>2, <3>5
        <3>7. t \in Nat /\ log[q][p].term \in Nat
            BY <1>n, <3>1, <3>4, TypeFacts
        <3>8. log[q][p].term >= t
            BY <3>6, <3>7
        <3> QED BY <2>2, <3>4, <3>8
    <2>3. ASSUME NEW c \in Callers, Notify(c)
          PROVE  /\ job[c].term \in Terms
                 /\ Committing(Next1(c), First(job[c].todo).slot, job[c].term)
                 /\ \E v \in chosen[First(job[c].todo).slot] : Decided(job[c].term, First(job[c].todo).slot, v)
        <3>1. job[c].phase = "commit"
            BY <2>3, NotifyEffect
        <3>2. job[c].term \in Terms
            BY DEF TypeOK, Job
        <3> QED BY <2>3, <3>1, <3>2, CommittingEffect DEF CommitInv
    <2>4. ASSUME NEW m \in lateCommits, LateCommit(m)
          PROVE  /\ m.term \in Terms /\ Committing(m.to, m.slot, m.term)
                 /\ \E v \in chosen[m.slot] : Decided(m.term, m.slot, v)
        <3>1. m.term \in Terms
            BY DEF TypeOK
        <3> QED BY <2>4, <3>1, CommittingEffect DEF StrayInv
    <2> QED BY <1>1, <2>1, <2>2, <2>3, <2>4, ApplyingStep
<1>4. PICK v \in chosen[s], t \in Terms : Decided(t, s, v) /\ log[r][s].term >= t
    BY <1>3
<1>5. v \in Values /\ v \in chosen'[s]
    BY <1>2, <1>4, HistoryGrows DEF TypeOK
<1>6. Decided(t, s, v)'
    BY <1>2, <1>4, <1>5, DecidedStable
<1>7. log'[r][s].term >= t
    <2>1. log'[r][s].term >= log[r][s].term
        BY <1>2, LogGrows DEF ElectionInv
    <2>2. \A l \in Log : l[s].term \in Nat
        BY <1>2, <1>n, TypeFacts DEF Log, Entry, NoEntry
    <2>3. log'[r] \in Log
        BY <1>n DEF TypeOK
    <2>4. log'[r][s].term \in Nat /\ log[r][s].term \in Nat /\ t \in Nat
        BY <1>n, <2>2, <2>3, TypeFacts
    <2> QED BY <1>4, <2>1, <2>4
<1> QED BY <1>5, <1>6, <1>7

-----------------------------------------------------------------------------
(* The invariant *)

(* The invariant holds initially. *)
LEMMA InitInv == Init => IInv
<1> SUFFICES ASSUME Init PROVE IInv
    OBVIOUS
<1>1. BaseInv
    BY InitInv1 DEF BaseInv
<1>2. /\ \A c \in Callers : /\ job[c].phase = "idle" /\ job[c].yes = {} /\ job[c].todo = {}
                            /\ job[c].ready /\ job[c].calls = "none"
      /\ \A r \in Replicas : role[r] = "follower" /\ term[r] = 0 /\ backers[r] = {} /\ committed[r] = {}
      /\ \A r \in Replicas, s \in Slots : log[r][s] = NoEntry /\ log[r][s].term = 0
      /\ late = {} /\ lateVotes = {} /\ lateCommits = {} /\ \A s \in Slots : chosen[s] = {}
    BY IdleFields DEF Init, EmptyLog, NoEntry
<1>3. \A t \in Terms, s \in Slots, v \in Values : ~Known(t, s, v)
    BY <1>2 DEF Known, Held, Delayed, Drives, Found
<1>4. \A r \in Replicas : ~HasLease(r) /\ ~Leads(r) /\ ~Preparing(r)
    BY <1>2 DEF HasLease, Leads, Preparing
<1>5. \A t \in Terms : ~Won(t)
    BY <1>2, <1>3, <1>4 DEF Won, Serving
<1>6. TermInv
    BY <1>2, <1>4, <1>5 DEF TermInv
<1>7. CountInv
    BY <1>2 DEF CountInv, Electing
<1>8. OwnInv
    BY <1>2, <1>4 DEF OwnInv
<1>9. BackInv
    BY <1>2 DEF BackInv
<1>10. LeaseInv
    BY <1>2, <1>4 DEF LeaseInv, Electing
<1>11. LogInv
    BY <1>2, <1>3, <1>4 DEF LogInv, Placed, OneValueKnown, LeaderKeeps
<1>12. DelayInv
    BY <1>2 DEF DelayInv
<1>13. ValueInv /\ CommittedInv
    BY <1>2 DEF ValueInv, DriveInv, CommitInv, ChosenInv, StrayInv, CommittedInv
<1> QED BY <1>1, <1>6, <1>7, <1>8, <1>9, <1>10, <1>11, <1>12, <1>13 DEF IInv, ElectionInv

(* The conditions are needed one part after the other, and those a part needs were
   kept before if they are kept after a step. *)
LEMMA ConditionsLast ==
    ASSUME TypeOK
    PROVE  /\ Complete => Unique
           /\ Follow => Complete /\ InRound
           /\ Next => (Unique' => Unique) /\ (Complete' => Complete) /\ (Follow' => Follow)
<1>1. /\ UniqueConditions \in SUBSET CompleteConditions
      /\ CompleteConditions \in SUBSET Conditions /\ "commits follow" \in Conditions
    BY DEF UniqueConditions, CompleteConditions, Conditions
<1>2. kept \in SUBSET Conditions
    BY DEF TypeOK
<1>3. ASSUME Next PROVE (Unique' => Unique) /\ (Complete' => Complete) /\ (Follow' => Follow)
    <2>1. kept' \in SUBSET kept
        BY <1>3, KeptShrinks
    <2> QED BY <1>2, <2>1 DEF Unique, Complete, Follow
<1> QED BY <1>1, <1>3 DEF Unique, Complete, Follow, InRound

(* Every step keeps the invariant. *)
LEMMA InvStep == IInv /\ [Next]_vars => IInv'
<1> SUFFICES ASSUME IInv, [Next]_vars PROVE IInv'
    OBVIOUS
<1>0. BaseInv /\ TypeOK
    BY DEF IInv, BaseInv
<1>1. CASE Next
    <2>1. /\ BaseInv'
          /\ (Complete => Unique) /\ (Complete' => Unique') /\ (Follow' => Complete' /\ InRound')
          /\ (Unique' => Unique) /\ (Complete' => Complete) /\ (Follow' => Follow)
        <3>1. TypeOK' /\ JobInv'
            BY <1>0, <1>1, TypeStep, JobInvStep DEF BaseInv
        <3>2. (Complete' => Unique') /\ (Follow' => Complete' /\ InRound')
            BY <3>1, ConditionsLast, PTL
        <3> QED BY <1>0, <1>1, <3>1, <3>2, ConditionsLast DEF BaseInv
    <2>2. ASSUME Unique' PROVE ElectionInv' /\ LogInv'
        <3>1. ElectionInv /\ LogInv
            BY <2>1, <2>2 DEF IInv
        <3> QED BY <1>0, <1>1, <2>2, <3>1, ElectionStep, LogInvStep
    <2>3. ASSUME Complete' PROVE ValueInv'
        <3>1. ElectionInv /\ LogInv /\ DriveInv /\ CommitInv /\ ChosenInv /\ StrayInv
            BY <2>1, <2>3 DEF IInv, ValueInv
        <3>2. DriveInv' /\ CommitInv' /\ ChosenInv' /\ StrayInv'
            BY <1>0, <1>1, <2>1, <2>3, <3>1, DriveInvStep, CommitInvStep, ChosenInvStep, StrayInvStep
        <3> QED BY <3>2 DEF ValueInv
    <2>4. ASSUME Follow' PROVE CommittedInv'
        <3>1. ElectionInv /\ LogInv /\ CommitInv /\ StrayInv /\ CommittedInv
            BY <2>1, <2>4 DEF IInv, ValueInv
        <3> QED BY <1>0, <1>1, <2>1, <2>4, <3>1, CommittedInvStep
    <2> QED BY <2>1, <2>2, <2>3, <2>4 DEF IInv
<1>2. CASE UNCHANGED vars
    <2> USE <1>2 DEF vars
    <2>1. BaseInv'
        BY DEF IInv, BaseInv, TypeOK, JobInv
    <2>k. /\ \A t, s, v : Known(t, s, v)' <=> Known(t, s, v)
          /\ \A r : (HasLease(r)' <=> HasLease(r)) /\ (Preparing(r)' <=> Preparing(r))
          /\ \A r, s : Pending(r, s)' <=> Pending(r, s)
          /\ \A r : Syncing(r)' <=> Syncing(r)
          /\ \A c : Possible(c)' = Possible(c)
        BY DEF Known, Held, Delayed, Drives, Found, HasLease, Preparing, Pending, Syncing, Possible, Below
    <2>l. \A r : Leads(r)' <=> Leads(r)
        BY <2>k DEF Leads
    <2>w. /\ \A t : Won(t)' <=> Won(t)
          /\ \A t : Reached(t)' = Reached(t)
        BY <2>k, <2>l DEF Won, Serving, Reached
    <2>c. (Unique' => Unique) /\ (Complete' => Complete) /\ (Follow' => Follow)
        BY DEF Unique, Complete, Follow
    <2>2. Unique' => TermInv' /\ CountInv' /\ DelayInv'
        BY <2>c, <2>k, <2>w DEF IInv, ElectionInv, TermInv, CountInv, DelayInv, Electing
    <2>3. Unique' => OwnInv'
        BY <2>c, <2>k, <2>l DEF IInv, ElectionInv, OwnInv, Serving
    <2>4. Unique' => BackInv'
        BY <2>c DEF IInv, ElectionInv, BackInv, Asks, Electing
    <2>5. Unique' => LeaseInv'
        BY <2>c, <2>k, <2>w DEF IInv, ElectionInv, LeaseInv, Electing
    <2>6. Unique' => LogInv'
        BY <2>c, <2>k, <2>l DEF IInv, LogInv, Placed, OneValueKnown, LeaderKeeps
    <2>7. \A t, s, v : Safe(t, s, v)' <=> Safe(t, s, v)
        BY <2>k, <2>l DEF Safe, Asks
    <2>8. \A t, s, v : Decided(t, s, v)' <=> Decided(t, s, v)
        BY <2>7, <2>l DEF Decided, Holders
    <2>9. Complete' => DriveInv'
        BY <2>c, <2>k, <2>7 DEF IInv, ValueInv, DriveInv
    <2>10. Complete' => CommitInv' /\ ChosenInv' /\ StrayInv'
        BY <2>c, <2>8 DEF IInv, ValueInv, CommitInv, ChosenInv, StrayInv
    <2>11. Follow' => CommittedInv'
        BY <2>c, <2>8 DEF IInv, CommittedInv
    <2> QED BY <2>1, <2>2, <2>3, <2>4, <2>5, <2>6, <2>9, <2>10, <2>11 DEF IInv, ElectionInv, ValueInv
<1> QED BY <1>1, <1>2

(* The invariant holds always. *)
LEMMA InvAlways == Spec => []IInv
BY InitInv, InvStep, PTL DEF Spec

(* The variables keep their types, whatever the conditions: in particular the
   slots a caller drives and the values applied are slots and values. *)
THEOREM TypeCorrect == Spec => []TypeOK
<1>1. Init => BaseInv
    BY InitInv1 DEF BaseInv
<1>2. BaseInv /\ [Next]_vars => BaseInv'
    <2> SUFFICES ASSUME BaseInv, [Next]_vars PROVE BaseInv'
        OBVIOUS
    <2>1. CASE Next
        BY <2>1, TypeStep, JobInvStep DEF BaseInv
    <2>2. CASE UNCHANGED vars
        BY <2>2 DEF vars, BaseInv, TypeOK, JobInv
    <2> QED BY <2>1, <2>2
<1>3. BaseInv => TypeOK
    BY DEF BaseInv
<1> QED BY <1>1, <1>2, <1>3, PTL DEF Spec

(* The invariant implies TermSlotsUnique: what logs hold is known. *)
LEMMA OneValue == IInv => TermSlotsUnique
<1> SUFFICES ASSUME IInv, Unique, NEW q \in Replicas, NEW r \in Replicas, NEW s \in Slots,
                    log[q][s].term = log[r][s].term
             PROVE  log[q][s] = log[r][s]
    BY DEF TermSlotsUnique, OneValuePerTermSlot, Unique
<1>1. TypeOK /\ TermInv /\ OneValueKnown
    BY DEF IInv, BaseInv, ElectionInv, LogInv
<1>2. \A l \in Log : \/ l[s] = NoEntry /\ l[s].term = 0
                     \/ l[s] \in Entry
    BY DEF Log, NoEntry
<1>3. log[q] \in Log /\ log[r] \in Log
    BY <1>1 DEF TypeOK
<1>4. ASSUME NEW p \in Replicas, log[p][s] # NoEntry, log[p] \in Log
      PROVE  /\ log[p][s] \in Entry /\ log[p][s].term # 0
             /\ Known(log[p][s].term, s, log[p][s].value)
    <2>1. log[p][s] \in Entry
        BY <1>2, <1>4
    <2>2. log[p][s].term \in Terms /\ log[p][s].value \in Values
        BY <2>1 DEF Entry
    <2>3. Known(log[p][s].term, s, log[p][s].value)
        BY <1>4 DEF Known, Held
    <2>4. Won(log[p][s].term)
        BY <2>2, <2>3 DEF Won
    <2> QED BY <1>1, <2>1, <2>2, <2>3, <2>4, TypeFacts DEF TermInv
<1>5. CASE log[q][s] = NoEntry \/ log[r][s] = NoEntry
    BY <1>2, <1>3, <1>4, <1>5 DEF NoEntry
<1>6. CASE log[q][s] # NoEntry /\ log[r][s] # NoEntry
    <2>1. PICK t \in Terms, v \in Values, w \in Values :
              /\ t = log[q][s].term /\ v = log[q][s].value /\ w = log[r][s].value
              /\ log[q][s] \in Entry /\ log[r][s] \in Entry
        BY <1>3, <1>4, <1>6 DEF Entry
    <2>2. Known(t, s, v) /\ Known(t, s, w)
        BY <1>3, <1>4, <1>6, <2>1
    <2>3. v = w
        BY <1>1, <2>2 DEF OneValueKnown
    <2>4. \A a, b \in Entry : a.term = b.term /\ a.value = b.value => a = b
        BY DEF Entry
    <2> QED BY <2>1, <2>3, <2>4
<1> QED BY <1>5, <1>6

(* An entry of the term in which a value was chosen, or of a later one, has that value. *)
LEMMA HoldersAgree ==
    ASSUME TypeOK, NEW t \in Terms, NEW s \in Slots, NEW v \in Values, Safe(t, s, v),
           NEW q \in Replicas, log[q][s].term >= t
    PROVE  /\ log[q][s] # NoEntry /\ log[q][s].value = v
           /\ Won(log[q][s].term) /\ log[q][s].term \in Terms
<1>1. TypeOK /\ t > 0 /\ t \in Nat
    BY TypeFacts DEF Safe
<1>2. log[q][s] # NoEntry
    BY <1>1 DEF NoEntry
<1>3. \A l \in Log : l[s] # NoEntry => l[s].term \in Terms /\ l[s].value \in Values
    BY DEF Log, Entry
<1>4. PICK u \in Terms, w \in Values : u = log[q][s].term /\ w = log[q][s].value
    BY <1>1, <1>2, <1>3 DEF TypeOK
<1>5. Known(u, s, w)
    BY <1>2, <1>4 DEF Known, Held
<1> QED BY <1>2, <1>4, <1>5 DEF Won, Safe

(* A leader whose election is over holds what is decided. *)
LEMMA LeaderHolds ==
    ASSUME IInv, Unique, NEW r \in Replicas, HasLease(r), \A c \in Callers : job[c].at = r => job[c].calls # "election",
           NEW t \in Terms, NEW s \in Slots, NEW v \in Values, Decided(t, s, v)
    PROVE  log[r][s].value = v
<1>1. /\ TypeOK /\ JobInv /\ LeaseInv /\ Leads(r) /\ Safe(t, s, v) /\ IsQuorum(Holders(t, s))
      /\ \A p \in Replicas : Leads(p) /\ term[p] = t => log[p][s].term >= t
    BY DEF IInv, BaseInv, ElectionInv, Leads, Decided
<1>2. PICK q \in Replicas : log[q][s].term >= t
    <2>1. Holders(t, s) \in SUBSET Replicas
        BY DEF Holders
    <2>2. PICK q \in Holders(t, s) : q \in Holders(t, s)
        BY <1>1, <2>1, QuorumsMeet
    <2> QED BY <2>2 DEF Holders
<1>3. Won(log[q][s].term) /\ log[q][s].term \in Terms
    BY <1>1, <1>2, HoldersAgree
<1>4. log[q][s].term <= term[r]
    BY <1>1, <1>3 DEF LeaseInv
<1>5. t <= term[r]
    BY <1>1, <1>2, <1>3, <1>4, TypeFacts
<1>6. ~Syncing(r) /\ ~Pending(r, s)
    BY <1>1 DEF Syncing, Pending, Awaits, JobInv, JobOK
<1>7. log[r][s].term >= t
    <2>1. CASE term[r] = t
        BY <1>1, <2>1
    <2>2. CASE term[r] # t
        <3>1. term[r] > t
            BY <1>1, <1>5, <2>2, TypeFacts
        <3> QED BY <1>1, <1>6, <3>1 DEF Safe
    <2> QED BY <2>1, <2>2
<1> QED BY <1>1, <1>7, HoldersAgree

(* The invariant implies LeaderComplete. *)
LEMMA LeadersHaveChosen == IInv => LeaderComplete
<1> SUFFICES ASSUME IInv, Complete, NEW r \in Replicas, HasLease(r),
                    \A c \in Callers : job[c].at = r => job[c].calls # "election",
                    NEW s \in Slots, chosen[s] # {}
             PROVE  log[r][s].value \in chosen[s]
    BY DEF LeaderComplete, LeaderHasChosen, Complete
<1>1. TypeOK /\ ChosenInv /\ Unique
    BY ConditionsLast DEF IInv, BaseInv, ValueInv
<1>2. PICK v \in chosen[s] : v \in Values
    BY <1>1 DEF TypeOK
<1>3. PICK t \in Terms : Decided(t, s, v)
    BY <1>1, <1>2 DEF ChosenInv
<1> QED BY <1>1, <1>2, <1>3, LeaderHolds

(* No two values occupy one (term, slot), in any group, as long as elections have terms
   of their own, terms stand while they are counted or taken, and proposals wait for
   the election: sync may compare terms alone. *)
THEOREM TermSlotsHaveOneValue == Spec => []TermSlotsUnique
BY InvAlways, OneValue, PTL

(* A leader whose election has returned holds every value for which propose has
   reported SUCCESS, or a new leader has found a quorum, as long as, besides, the
   voters of every leader have answered its sync. *)
THEOREM LeadersAreComplete == Spec => []LeaderComplete
BY InvAlways, LeadersHaveChosen, PTL

-----------------------------------------------------------------------------
(* The group implements a replicated log *)

OneChosen == \A s \in Slots : \A v, w \in chosen[s] : v = w
CommittedHolds == \A r \in Replicas : \A s \in committed[r] : log[r][s].value \in chosen[s]

(* No slot has two chosen values: some log holds both. *)
LEMMA ChosenUnique == IInv /\ Complete => OneChosen
<1> SUFFICES ASSUME IInv, Complete, NEW s \in Slots, NEW v \in chosen[s], NEW w \in chosen[s] PROVE v = w
    BY DEF OneChosen
<1>1. TypeOK /\ ChosenInv
    BY DEF IInv, BaseInv, ValueInv
<1>2. v \in Values /\ w \in Values
    BY <1>1 DEF TypeOK
<1>3. PICK t \in Terms : Decided(t, s, v)
    BY <1>1 DEF ChosenInv
<1>4. PICK u \in Terms : Decided(u, s, w)
    BY <1>1 DEF ChosenInv
<1>5. ASSUME NEW x \in Terms, IsQuorum(Holders(x, s)) PROVE \E q \in Replicas : log[q][s].term >= x
    <2>1. Holders(x, s) \in SUBSET Replicas
        BY DEF Holders
    <2>2. PICK q \in Holders(x, s) : q \in Holders(x, s)
        BY <1>5, <2>1, QuorumsMeet
    <2> QED BY <2>2 DEF Holders
<1>6. PICK q \in Replicas : log[q][s].term >= t /\ log[q][s].term >= u
    <2>1. \A p \in Replicas : log[p][s].term \in Nat
        BY <1>1, TypeFacts
    <2>2. t \in Nat /\ u \in Nat
        BY <1>1, TypeFacts
    <2>3. PICK a \in Replicas : log[a][s].term >= t
        BY <1>3, <1>5 DEF Decided
    <2>4. PICK b \in Replicas : log[b][s].term >= u
        BY <1>4, <1>5 DEF Decided
    <2>5. CASE t <= u
        BY <2>1, <2>2, <2>4, <2>5
    <2>6. CASE ~(t <= u)
        BY <2>1, <2>2, <2>3, <2>6
    <2> QED BY <2>5, <2>6
<1>7. log[q][s].value = v
    BY <1>1, <1>2, <1>3, <1>6, HoldersAgree DEF Decided
<1>8. log[q][s].value = w
    BY <1>1, <1>2, <1>4, <1>6, HoldersAgree DEF Decided
<1> QED BY <1>7, <1>8

(* A committed slot holds its chosen value. *)
LEMMA CommittedIsChosen == IInv /\ Follow => CommittedHolds
<1> SUFFICES ASSUME IInv, Follow, NEW r \in Replicas, NEW s \in committed[r] PROVE log[r][s].value \in chosen[s]
    BY DEF CommittedHolds
<1>1. TypeOK /\ CommittedInv /\ s \in Slots
    BY DEF IInv, BaseInv, ValueInv, TypeOK
<1>2. PICK v \in chosen[s], t \in Terms : Decided(t, s, v) /\ log[r][s].term >= t
    BY <1>1 DEF CommittedInv
<1>3. v \in Values
    BY <1>1 DEF TypeOK
<1>4. log[r][s].value = v
    BY <1>1, <1>2, <1>3, HoldersAgree DEF Decided
<1> QED BY <1>2, <1>4

(* A value is chosen for a slot that had none, or for one that has it already. *)
LEMMA ChosenRefines ==
    ASSUME IInv, OneChosen', NEW c \in Callers, Chosen(c)
    PROVE  UNCHANGED chosen \/ \E s \in Slots, v \in Values : Promise!Choose(s, v)
<1>1. TypeOK /\ BaseInv
    BY DEF IInv, BaseInv
<1>2. PICK e : e = First(job[c].todo)
    OBVIOUS
<1>3. e \in Driven
    BY <1>1, <1>2, ChosenEffect DEF BaseInv
<1>4. PICK s \in Slots, v \in Values : s = e.slot /\ v = e.value
    BY <1>3 DEF Driven
<1>5. chosen' = [chosen EXCEPT ![s] = chosen[s] \cup {v}] /\ UNCHANGED applied
    BY <1>2, <1>4 DEF Chosen, applying
<1>6. chosen'[s] = chosen[s] \cup {v}
    BY <1>1, <1>5 DEF TypeOK
<1>7. \A w \in chosen[s] : w = v
    BY <1>6 DEF OneChosen
<1>8. CASE chosen[s] = {}
    <2>1. chosen' = [chosen EXCEPT ![s] = {v}]
        BY <1>5, <1>8
    <2>2. Promise!Choose(s, v)
        BY <1>5, <1>8, <2>1 DEF Promise!Choose
    <2> QED BY <2>2
<1>9. CASE chosen[s] # {}
    <2>1. chosen[s] \cup {v} = chosen[s]
        BY <1>7, <1>9
    <2> QED BY <1>1, <1>5, <2>1 DEF TypeOK
<1> QED BY <1>8, <1>9

(* A commit notification feeds the replica the next chosen values, if any. *)
LEMMA NotifyRefines ==
    ASSUME TypeOK, OneChosen, CommittedHolds', UNCHANGED <<chosen, log>>,
           NEW r, NEW s, NEW t, Committing(r, s, t)
    PROVE  UNCHANGED applied \/ \E q \in Replicas : Promise!Apply(q)
<1>1. UNCHANGED chosen /\ UNCHANGED log
    OBVIOUS
<1>2. r \in Replicas /\ s \in Slots /\ Commit(r, s, t)
    BY DEF Committing
<1>3. /\ committed[r] \cup {s} \in SUBSET Slots
      /\ \/ UNCHANGED <<committed, applied>>
         \/ /\ committed' = [committed EXCEPT ![r] = @ \cup {s}]
            /\ applied' = ApplyReady(r, committed[r] \cup {s})
    BY <1>2, CommitEffect
<1>4. CASE UNCHANGED <<committed, applied>>
    BY <1>4
<1>5. CASE /\ committed' = [committed EXCEPT ![r] = @ \cup {s}]
           /\ applied' = ApplyReady(r, committed[r] \cup {s})
    <2>1. committed'[r] = committed[r] \cup {s}
        BY <1>2, <1>5 DEF TypeOK
    <2>n. PICK n \in Nat :
          /\ ApplyReady(r, committed[r] \cup {s}) = [applied EXCEPT ![r] =
                 @ \o [i \in 1..n |-> log[r][Len(applied[r]) + i].value]]
          /\ \A i \in Len(applied[r]) + 1..Len(applied[r]) + n :
                 i \in Slots /\ i \in committed[r] \cup {s} /\ log[r][i] # NoEntry
        BY <1>2, <1>3, AppliesNext
    <2>2. PICK k : k = Len(applied[r])
        OBVIOUS
    <2>3. /\ applied' = [applied EXCEPT ![r] = @ \o [i \in 1..n |-> log[r][k + i].value]]
          /\ \A i \in k + 1..k + n : i \in Slots /\ i \in committed'[r]
        BY <1>5, <2>n, <2>1, <2>2
    <2>4. k \in Nat /\ applied[r] \in Seq(Values)
        BY <1>2, <2>2 DEF TypeOK
    <2>5. ASSUME NEW i \in k + 1..k + n
          PROVE  i \in Slots /\ chosen[i] = {log[r][i].value}
        BY <1>1, <1>2, <2>3, <2>5 DEF OneChosen, CommittedHolds
    <2>6. CASE n = 0
        <3>1. applied[r] \o [i \in 1..n |-> log[r][k + i].value] = applied[r]
            BY <2>4, <2>6
        <3> QED BY <1>2, <2>3, <3>1 DEF TypeOK
    <2>7. CASE n > 0
        <3>1. PICK m \in Slots : m = k + n
            BY <2>4, <2>5, <2>7
        <3>2. m > Len(applied[r]) /\ m - Len(applied[r]) = n
            BY <2>2, <2>4, <2>7, <3>1
        <3>3. \A i \in Len(applied[r]) + 1..m : chosen[i] # {}
            BY <2>2, <2>5, <3>1
        <3>4. ASSUME NEW i \in 1..n PROVE log[r][k + i].value = CHOOSE v \in chosen[k + i] : TRUE
            <4>1. k + i \in k + 1..k + n
                BY <2>4
            <4> QED BY <2>5, <4>1
        <3>5. [i \in 1..n |-> log[r][k + i].value]
                  = [i \in 1..m - Len(applied[r]) |-> CHOOSE v \in chosen[Len(applied[r]) + i] : TRUE]
            BY <2>2, <3>2, <3>4
        <3>6. applied' = [applied EXCEPT ![r] =
                  @ \o [i \in 1..m - Len(@) |-> CHOOSE v \in chosen[Len(applied[r]) + i] : TRUE]]
            BY <2>3, <3>5
        <3>7. Promise!Apply(r)
            BY <1>1, <1>2, <3>1, <3>2, <3>3, <3>6 DEF Promise!Apply
        <3> QED BY <1>2, <3>7
    <2> QED BY <2>6, <2>7
<1> QED BY <1>3, <1>4, <1>5

(* While the conditions are kept, every step of the group is a step of the replicated
   log, or none. *)
LEMMA StepRefines ==
    IInv /\ IInv' /\ [Next]_vars => [kept' = Conditions => Promise!LogNext]_Logged
<1> SUFFICES ASSUME IInv, IInv', [Next]_vars, Follow'
             PROVE  Promise!LogNext \/ UNCHANGED <<chosen, applied>>
    BY DEF Logged, Follow
<1>1. CASE UNCHANGED vars
    BY <1>1 DEF vars
<1>2. CASE Next
    <2>0. TypeOK /\ JobInv /\ TypeOK'
        BY DEF IInv, BaseInv
    <2>1. Follow /\ Complete /\ Complete'
        <3>1. Complete'
            BY <2>0, ConditionsLast, PTL
        <3> QED BY <1>2, <2>0, <3>1, ConditionsLast
    <2>2. OneChosen /\ OneChosen' /\ CommittedHolds'
        <3>1. OneChosen'
            BY <2>1, ChosenUnique, PTL
        <3>2. CommittedHolds'
            BY CommittedIsChosen, PTL
        <3> QED BY <2>1, <3>1, <3>2, ChosenUnique
    <2>3. ASSUME NEW c \in Callers, Chosen(c) PROVE Promise!LogNext \/ UNCHANGED <<chosen, applied>>
        <3>1. UNCHANGED applied
            BY <2>3 DEF Chosen, applying
        <3> QED BY <2>2, <2>3, <3>1, ChosenRefines DEF Promise!LogNext
    <2>4. ASSUME NEW c \in Callers, Notify(c) PROVE Promise!LogNext \/ UNCHANGED <<chosen, applied>>
        <3>1. UNCHANGED <<chosen, log>>
            BY <2>4 DEF Notify, logging
        <3>2. Committing(Next1(c), First(job[c].todo).slot, job[c].term)
            BY <2>0, <2>4, CommittingEffect
        <3>3. UNCHANGED applied \/ \E q \in Replicas : Promise!Apply(q)
            BY <2>0, <2>2, <3>1, <3>2, NotifyRefines
        <3> QED BY <3>1, <3>3 DEF Promise!LogNext
    <2>5. ASSUME NEW m \in lateCommits, LateCommit(m) PROVE Promise!LogNext \/ UNCHANGED <<chosen, applied>>
        <3>1. UNCHANGED <<chosen, log>>
            BY <2>5 DEF LateCommit, logging
        <3>2. Committing(m.to, m.slot, m.term)
            BY <2>0, <2>5, CommittingEffect
        <3>3. UNCHANGED applied \/ \E q \in Replicas : Promise!Apply(q)
            BY <2>0, <2>2, <3>1, <3>2, NotifyRefines
        <3> QED BY <3>1, <3>3 DEF Promise!LogNext
    <2> QED BY <1>2, <2>0, <2>3, <2>4, <2>5, ChosenStep, ApplyingStep
<1> QED BY <1>1, <1>2

(* The group implements ReplicatedLog as long as no step breaks one of the five
   conditions: a slot gets one value for ever, and every replica applies the chosen
   values in the order of their slots, no gaps, no repetitions. *)
THEOREM GroupIsReplicatedLog == Spec => IsReplicatedLog
<1>1. Init => Promise!LogInit
    BY DEF Init, Promise!LogInit
<1>2. IInv /\ IInv' /\ [Next]_vars => [kept' = Conditions => Promise!LogNext]_Logged
    BY StepRefines
<1> QED BY <1>1, <1>2, InvAlways, PTL DEF Spec, IsReplicatedLog
=============================================================================
