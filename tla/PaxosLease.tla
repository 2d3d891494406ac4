----------------------------- MODULE PaxosLease -----------------------------
(***************************************************************************)
(* Leader leases of a Paxos group (replication/paxos/paxos_group.py): a    *)
(* candidate asks every replica for a timed vote, a quorum of votes makes  *)
(* it leader, and its lease is the smallest of the granted vote ends.      *)
(*                                                                         *)
(* TrueTime is an interval around absolute time: a reading of latest is in *)
(* now .. now + MaxErr and a reading of earliest in now - MaxErr .. now,   *)
(* chosen anew at every call, which covers any offset and uncertainty the  *)
(* replica's clock can have.                                               *)
(***************************************************************************)
EXTENDS Integers, FiniteSets

CONSTANTS Replicas,   \* the members of the group
          Candidates, \* those on which request_leadership is called
          Before,     \* <<u, v>>: u comes before v in the list of replicas
          Unreliable, \* those whose answer may fail to come in time
          Lease,      \* lease_duration_ms
          MaxErr,     \* the widest error of a TrueTime reading
          MaxTime,    \* absolute time stops here
          MaxTerm     \* no replica starts an election beyond this term

ASSUME ReplicasAssumption == IsFiniteSet(Replicas) /\ Candidates \subseteq Replicas
ASSUME TimesAssumption == {Lease, MaxErr, MaxTime, MaxTerm} \subseteq Nat

CONSTANT None
ASSUME NoneAssumption == None \notin Replicas

VARIABLES
    now,          \* absolute time
    role,         \* PaxosGroup.state
    term,         \* PaxosGroup.term
    leaseEnd,     \* PaxosGroup.lease_end_ns
    lastVote,     \* PaxosGroup.last_vote, the candidate and the end
    ballot,       \* the locals of request_leadership, and the last term asked for
    campaigning,  \* the replicas inside request_leadership
    late          \* vote requests whose sender no longer waits for the reply

leaseVars == <<now, role, term, leaseEnd, lastVote, ballot, campaigning, late>>

(* quorum_size = len(replicas) // 2 + 1 *)
Quorums == {Q \in SUBSET Replicas : Cardinality(Q) >= Cardinality(Replicas) \div 2 + 1}

NoBallot(t) == [term |-> t, asked |-> {}, grants |-> {}]
Ballots == [term : Nat, asked : SUBSET Replicas,
            grants : SUBSET [voter : Replicas, end : Nat]]
VoteRequests == [candidate : Replicas, voter : Replicas, term : Nat]
Asked(b, v) == [b EXCEPT !.asked = @ \cup {v}]
Counted(b, v, e) == [Asked(b, v) EXCEPT !.grants = @ \cup {[voter |-> v, end |-> e]}]
Voters(r) == {g.voter : g \in ballot[r].grants}

LeaseTypeOK ==
    /\ now \in Nat
    /\ role \in [Replicas -> {"follower", "candidate", "leader"}]
    /\ term \in [Replicas -> Nat]
    /\ leaseEnd \in [Replicas -> Nat]
    /\ lastVote \in [Replicas -> [candidate : Replicas \cup {None}, end : Nat]]
    /\ ballot \in [Replicas -> Ballots]
    /\ campaigning \in SUBSET Replicas
    /\ late \in SUBSET VoteRequests

LeaseInit ==
    /\ now = 0
    /\ role = [r \in Replicas |-> "follower"]
    /\ term = [r \in Replicas |-> 0]
    /\ leaseEnd = [r \in Replicas |-> 0]
    /\ lastVote = [r \in Replicas |-> [candidate |-> None, end |-> 0]]
    /\ ballot = [r \in Replicas |-> NoBallot(0)]
    /\ campaigning = {}
    /\ late = {}

Tick ==
    /\ now < MaxTime
    /\ now' = now + 1
    /\ UNCHANGED <<role, term, leaseEnd, lastVote, ballot, campaigning, late>>

(* request_leadership starts: a new term, no votes yet. *)
RequestLeadership(r) ==
    /\ r \notin campaigning
    /\ term[r] < MaxTerm
    /\ role' = [role EXCEPT ![r] = "candidate"]
    /\ term' = [term EXCEPT ![r] = @ + 1]
    /\ ballot' = [ballot EXCEPT ![r] = NoBallot(term[r] + 1)]
    /\ campaigning' = campaigning \cup {r}
    /\ UNCHANGED <<now, leaseEnd, lastVote, late>>

-----------------------------------------------------------------------------
(* _on_lease_vote *)

(* Fault: the single-vote rule compares latest, not earliest, with the end. *)
FaultyMayGrantLatest(m) ==
    /\ m.term >= term[m.voter]
    /\ \/ lastVote[m.voter].candidate \in {None, m.candidate}
       \/ now + MaxErr > lastVote[m.voter].end

(* Fault: a request of an old term is granted. *)
FaultyMayGrantStale(m) ==
    \/ lastVote[m.voter].candidate \in {None, m.candidate}
    \/ now > lastVote[m.voter].end

(* The single-vote rule may let the request through, or may refuse it: TT.after
   of the outstanding vote's end depends on the reading. *)
MayGrant(m) ==
    /\ m.term >= term[m.voter]
    /\ \/ lastVote[m.voter].candidate \in {None, m.candidate}
       \/ now > lastVote[m.voter].end

MayRefuse(m) ==
    \/ m.term < term[m.voter]
    \/ /\ lastVote[m.voter].candidate \notin {None, m.candidate}
       /\ now - MaxErr <= lastVote[m.voter].end

(* vote_end: TT.now().latest plus the lease. *)
VoteEnds == (now + Lease)..(now + MaxErr + Lease)

(* The voter's side of a granted vote that ends at e. *)
Grant(m, e) ==
    /\ MayGrant(m)
    /\ term' = [term EXCEPT ![m.voter] = m.term]
    /\ role' = [role EXCEPT ![m.voter] = IF m.candidate = m.voter THEN @ ELSE "follower"]
    /\ lastVote' = [lastVote EXCEPT ![m.voter] = [candidate |-> m.candidate, end |-> e]]

Request(r, v) == [candidate |-> r, voter |-> v, term |-> ballot[r].term]

(* "for rid in self.replicas" *)
MayAsk(r, v) ==
    /\ r \in campaigning
    /\ v \notin ballot[r].asked
    /\ \A u \in Replicas : <<u, v>> \in Before => u \in ballot[r].asked

AskGranted(r, v) ==
    /\ MayAsk(r, v)
    /\ \E e \in VoteEnds :
          /\ Grant(Request(r, v), e)
          /\ ballot' = [ballot EXCEPT ![r] = Counted(@, v, e)]
    /\ UNCHANGED <<now, leaseEnd, campaigning, late>>

AskRefused(r, v) ==
    /\ MayAsk(r, v)
    /\ MayRefuse(Request(r, v))
    /\ ballot' = [ballot EXCEPT ![r] = Asked(@, v)]
    /\ UNCHANGED <<now, role, term, leaseEnd, lastVote, campaigning, late>>

(* No reply in time: the request may be lost, or still reach the voter. *)
AskUnanswered(r, v) ==
    /\ v \in Unreliable
    /\ MayAsk(r, v)
    /\ ballot' = [ballot EXCEPT ![r] = Asked(@, v)]
    /\ late' = late \cup {Request(r, v)}
    /\ UNCHANGED <<now, role, term, leaseEnd, lastVote, campaigning>>

LateGrant(m) ==
    /\ m \in late
    /\ \E e \in VoteEnds : Grant(m, e)
    /\ late' = late \ {m}
    /\ UNCHANGED <<now, leaseEnd, ballot, campaigning>>

LateRefuse(m) ==
    /\ m \in late
    /\ MayRefuse(m)
    /\ late' = late \ {m}
    /\ UNCHANGED <<now, role, term, leaseEnd, lastVote, ballot, campaigning>>

-----------------------------------------------------------------------------
(* request_leadership counts its votes.  Neither outcome looks at what the
   replica has voted for or learned meanwhile. *)
Win(r) ==
    /\ r \in campaigning
    /\ ballot[r].asked = Replicas
    /\ Voters(r) \in Quorums
    /\ role' = [role EXCEPT ![r] = "leader"]
    /\ \E g \in ballot[r].grants :
          /\ \A h \in ballot[r].grants : g.end <= h.end
          /\ leaseEnd' = [leaseEnd EXCEPT ![r] = g.end]
    /\ campaigning' = campaigning \ {r}
    /\ ballot' = [ballot EXCEPT ![r] = NoBallot(@.term)]
    /\ UNCHANGED <<now, term, lastVote, late>>

Lose(r) ==
    /\ r \in campaigning
    /\ ballot[r].asked = Replicas
    /\ Voters(r) \notin Quorums
    /\ role' = [role EXCEPT ![r] = "follower"]
    /\ campaigning' = campaigning \ {r}
    /\ ballot' = [ballot EXCEPT ![r] = NoBallot(@.term)]
    /\ UNCHANGED <<now, term, leaseEnd, lastVote, late>>

(* _on_accept raises the term of v to that of an AcceptRequest, which r, a
   leader once, sent with a term it has had by now. *)
AcceptTerm(r, v) ==
    /\ leaseEnd[r] # 0
    /\ \E t \in term[v]..term[r] : term' = [term EXCEPT ![v] = t]
    /\ UNCHANGED <<now, role, leaseEnd, lastVote, ballot, campaigning, late>>

LeaseNext ==
    \/ Tick
    \/ \E r \in Replicas :
          \/ r \in Candidates /\ RequestLeadership(r)
          \/ Win(r) \/ Lose(r)
          \/ \E v \in Replicas :
                \/ AskGranted(r, v) \/ AskRefused(r, v) \/ AskUnanswered(r, v)
                \/ AcceptTerm(r, v)
    \/ \E m \in late : LateRefuse(m) \/ LateGrant(m)

LeaseSpec == LeaseInit /\ [][LeaseNext]_leaseVars

-----------------------------------------------------------------------------
(* Properties *)

(* has_lease: TT.now().latest < lease_end_ns, at the most generous reading. *)
HasLease(r) == role[r] = "leader" /\ now < leaseEnd[r]

(* "Disjointness follows from TT.after" (module header): at no time do two
   replicas both believe they hold the lease, whatever requests were lost or
   arrived late and however far the clocks err within TrueTime. *)
LeaseDisjoint ==
    \A r, s \in Replicas : HasLease(r) /\ HasLease(s) => r = s

(* A lease is covered to its end by a quorum of outstanding votes: no voter of
   the quorum has since moved, shortened or withdrawn its vote. *)
LeaseBacked ==
    \A r \in Replicas : HasLease(r) =>
        \E Q \in Quorums : \A v \in Q :
            lastVote[v].candidate = r /\ lastVote[v].end >= leaseEnd[r]

(* Terms never go back at any replica (votes, accepts and elections all move
   the same counter). *)
TermsGrow == [][\A r \in Replicas : term'[r] >= term[r]]_leaseVars
=============================================================================
