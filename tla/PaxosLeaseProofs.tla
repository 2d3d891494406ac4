------------------------- MODULE PaxosLeaseProofs -------------------------
(***************************************************************************)
(* Proofs about PaxosLease, for any group, lease length and clock error:   *)
(* a lease in force is backed by a quorum of outstanding votes, so at most *)
(* one replica holds a lease at any time.                                  *)
(***************************************************************************)
EXTENDS PaxosLease, TLAPS, FiniteSetTheorems

(* v's vote is for r and lasts until e at least. *)
VotedFor(v, r, e) == lastVote[v].candidate = r /\ lastVote[v].end >= e

(* v has moved to the term r asked for last, so no request of r to v that is
   still on its way can be granted. *)
Settled(r, v) ==
    /\ term[v] >= ballot[r].term
    /\ \A m \in late : m.candidate = r /\ m.voter = v => m.term < ballot[r].term

(* A replica inside request_leadership is not leader, and its requests carry
   terms it has had. *)
CampaignInv ==
    /\ \A r \in campaigning : role[r] # "leader"
    /\ \A r \in Replicas : ballot[r].term <= term[r]
    /\ \A m \in late : m.term <= ballot[m.candidate].term
    /\ \A m \in late : m.candidate \in campaigning /\ m.term = ballot[m.candidate].term
                          => m.voter \in ballot[m.candidate].asked

(* A counted vote is still in force, or has expired. *)
CountedInv ==
    \A r \in campaigning : \A g \in ballot[r].grants :
        /\ g.voter \in ballot[r].asked
        /\ Settled(r, g.voter)
        /\ now > g.end \/ VotedFor(g.voter, r, g.end)

(* A lease in force is backed by a settled quorum. *)
BackedInv ==
    \A r \in Replicas : HasLease(r) =>
        \E Q \in Quorums : \A v \in Q : Settled(r, v) /\ VotedFor(v, r, leaseEnd[r])

LeaseInv == LeaseTypeOK /\ CampaignInv /\ CountedInv /\ BackedInv

(* What asking a replica, and counting its vote, changes in a ballot. *)
LEMMA AskedBallot ==
    ASSUME NEW b \in Ballots, NEW v \in Replicas
    PROVE  /\ Asked(b, v) \in Ballots
           /\ Asked(b, v).term = b.term
           /\ Asked(b, v).asked = b.asked \cup {v}
           /\ Asked(b, v).grants = b.grants
BY DEF Ballots, Asked

LEMMA CountedBallot ==
    ASSUME NEW b \in Ballots, NEW v \in Replicas, NEW e \in Nat
    PROVE  /\ Counted(b, v, e) \in Ballots
           /\ Counted(b, v, e).term = b.term
           /\ Counted(b, v, e).asked = b.asked \cup {v}
           /\ Counted(b, v, e).grants = b.grants \cup {[voter |-> v, end |-> e]}
<1> DEFINE a == Asked(b, v)
<1>1. /\ a \in Ballots /\ a.term = b.term /\ a.asked = b.asked \cup {v}
      /\ a.grants = b.grants
    BY AskedBallot
<1>2. Counted(b, v, e) = [a EXCEPT !.grants = @ \cup {[voter |-> v, end |-> e]}]
    BY DEF Counted
<1> HIDE DEF a
<1> QED BY <1>1, <1>2 DEF Ballots

(* Any two quorums of quorum_size = n // 2 + 1 replicas share one. *)
LEMMA QuorumsIntersect ==
    ASSUME NEW P \in Quorums, NEW Q \in Quorums
    PROVE  P \cap Q # {}
<1>1. IsFiniteSet(Replicas) /\ P \subseteq Replicas /\ Q \subseteq Replicas
    BY ReplicasAssumption DEF Quorums
<1>2. Cardinality(Replicas) \in Nat /\ Cardinality(P) \in Nat /\ Cardinality(Q) \in Nat
    BY <1>1, FS_CardinalityType, FS_Subset
<1>3. /\ Cardinality(P) >= Cardinality(Replicas) \div 2 + 1
      /\ Cardinality(Q) >= Cardinality(Replicas) \div 2 + 1
    BY DEF Quorums
<1>4. Cardinality(P) + Cardinality(Q) > Cardinality(Replicas)
    BY <1>2, <1>3
<1> QED BY <1>1, <1>4, FS_MajoritiesIntersect

LEMMA LeaseInitInv == LeaseInit => LeaseInv
<1> SUFFICES ASSUME LeaseInit PROVE LeaseInv
    OBVIOUS
<1> USE DEF LeaseInit, NoBallot
<1>1. LeaseTypeOK
    BY DEF LeaseTypeOK, Ballots
<1>2. CampaignInv
    BY DEF CampaignInv
<1>3. CountedInv /\ BackedInv
    BY DEF CountedInv, BackedInv, HasLease
<1> QED BY <1>1, <1>2, <1>3 DEF LeaseInv

LEMMA TickInv == LeaseInv /\ Tick => LeaseInv'
<1> SUFFICES ASSUME LeaseInv, Tick PROVE LeaseInv'
    OBVIOUS
<1> USE DEF LeaseInv, Tick
<1>1. LeaseTypeOK'
    BY TimesAssumption DEF LeaseTypeOK, Ballots
<1>2. CampaignInv'
    BY DEF CampaignInv
<1>3. CountedInv'
    BY DEF CountedInv, Settled, VotedFor, LeaseTypeOK, Ballots
<1>4. BackedInv'
    <2>1. \A r \in Replicas : HasLease(r)' => HasLease(r)
        BY DEF HasLease, LeaseTypeOK, Ballots
    <2>2. \A r, v : Settled(r, v)' = Settled(r, v)
        BY DEF Settled
    <2>3. \A r, v, e : VotedFor(v, r, e)' = VotedFor(v, r, e)
        BY DEF VotedFor
    <2> QED BY <2>1, <2>2, <2>3 DEF BackedInv
<1> QED BY <1>1, <1>2, <1>3, <1>4

LEMMA RequestLeadershipInv ==
    ASSUME LeaseInv, NEW r \in Replicas, RequestLeadership(r)
    PROVE  LeaseInv'
<1> USE DEF LeaseInv, RequestLeadership, NoBallot
<1>1. LeaseTypeOK'
    BY DEF LeaseTypeOK, Ballots
<1>2. CampaignInv'
    BY DEF CampaignInv, LeaseTypeOK, Ballots, VoteRequests
<1>3. \A s \in Replicas \ {r} : \A v \in Replicas : Settled(s, v) => Settled(s, v)'
    BY DEF Settled, LeaseTypeOK, Ballots
<1>4. CountedInv'
    BY <1>3 DEF CountedInv, VotedFor, LeaseTypeOK, Ballots
<1>5. BackedInv'
    BY <1>3 DEF BackedInv, HasLease, VotedFor, LeaseTypeOK, Quorums
<1> QED BY <1>1, <1>2, <1>4, <1>5

(* The request that opens or answers an election is one of the bounded set. *)
LEMMA RequestType ==
    ASSUME LeaseTypeOK, NEW r \in Replicas, NEW v \in Replicas
    PROVE  Request(r, v) \in VoteRequests
BY DEF LeaseTypeOK, Ballots, Request, VoteRequests

(* A granted vote leaves every lease in force and every counted vote alone: a
   vote for somebody else needs the old one to have expired, and a vote for
   the same candidate needs a request that is still unanswered. *)
LEMMA GrantSpares ==
    ASSUME LeaseTypeOK, NEW m \in VoteRequests, NEW e \in Nat, Grant(m, e),
           NEW s \in Replicas, NEW v \in Replicas, NEW f \in Nat,
           VotedFor(v, s, f), term[v] >= ballot[s].term, now <= f,
           m.candidate = s /\ m.voter = v => m.term < ballot[s].term
    PROVE  m.voter # v
<1> SUFFICES ASSUME m.voter = v PROVE FALSE
    OBVIOUS
<1>1. lastVote[v].candidate = s /\ lastVote[v].end >= f /\ lastVote[v].end \in Nat
    BY DEF VotedFor, LeaseTypeOK, Ballots
<1>2. CASE m.candidate = s
    <2>1. m.term < ballot[s].term /\ m.term >= term[v]
        BY <1>2 DEF Grant, MayGrant
    <2>2. m.term \in Nat /\ term[v] \in Nat /\ ballot[s].term \in Nat
        BY DEF LeaseTypeOK, Ballots, VoteRequests
    <2> QED BY <2>1, <2>2
<1>3. CASE m.candidate # s
    <2>1. now > lastVote[v].end
        BY <1>1, <1>3, NoneAssumption DEF Grant, MayGrant
    <2> QED BY <1>1, <2>1 DEF LeaseTypeOK, Ballots
<1> QED BY <1>2, <1>3

(* What a granted vote does to the terms and types. *)
LEMMA GrantTypes ==
    ASSUME LeaseTypeOK, NEW m \in VoteRequests, NEW e \in Nat, Grant(m, e)
    PROVE  /\ term' \in [Replicas -> Nat]
           /\ role' \in [Replicas -> {"follower", "candidate", "leader"}]
           /\ lastVote' \in [Replicas -> [candidate : Replicas \cup {None}, end : Nat]]
           /\ \A v \in Replicas : term'[v] >= term[v]
           /\ \A v \in Replicas : role'[v] = "leader" => role[v] = "leader"
           /\ \A v \in Replicas : v # m.voter => lastVote'[v] = lastVote[v]
BY DEF LeaseTypeOK, Ballots, VoteRequests, Grant, MayGrant

LEMMA VoteEndsNat == LeaseTypeOK => VoteEnds \subseteq Nat
BY TimesAssumption DEF LeaseTypeOK, VoteEnds

LEMMA LateGrantInv ==
    ASSUME LeaseInv, NEW m \in late, LateGrant(m)
    PROVE  LeaseInv'
<1> PICK e \in VoteEnds : Grant(m, e)
    BY DEF LateGrant
<1>1. LeaseTypeOK /\ m \in VoteRequests /\ e \in Nat
    BY VoteEndsNat DEF LeaseInv, LeaseTypeOK, Ballots
<1>2. /\ now' = now /\ leaseEnd' = leaseEnd /\ ballot' = ballot
      /\ campaigning' = campaigning /\ late' = late \ {m}
    BY DEF LateGrant
<1>3. LeaseTypeOK'
    BY <1>1, <1>2, GrantTypes DEF LeaseTypeOK, Ballots
<1>4. CampaignInv'
    BY <1>1, <1>2, GrantTypes DEF LeaseInv, CampaignInv, LeaseTypeOK, Ballots
<1>5. \A s, v \in Replicas : Settled(s, v) => Settled(s, v)'
    BY <1>1, <1>2, GrantTypes DEF Settled, LeaseTypeOK, Ballots
<1>6. ASSUME NEW s \in Replicas, NEW v \in Replicas, NEW f \in Nat,
             Settled(s, v), VotedFor(v, s, f), now <= f
      PROVE  VotedFor(v, s, f)'
    <2>1. m.voter # v
        BY <1>1, <1>6, GrantSpares DEF Settled
    <2> QED BY <1>1, <1>6, <2>1, GrantTypes DEF VotedFor
<1>7. CountedInv'
    <2> SUFFICES ASSUME NEW r \in campaigning, NEW g \in ballot[r].grants, ~(now > g.end)
                 PROVE  /\ g.voter \in ballot[r].asked
                        /\ Settled(r, g.voter)'
                        /\ VotedFor(g.voter, r, g.end)'
        BY <1>2, <1>5 DEF CountedInv, LeaseInv, LeaseTypeOK, Ballots
    <2>1. r \in Replicas /\ g.voter \in Replicas /\ g.end \in Nat /\ now \in Nat
        BY <1>1 DEF LeaseTypeOK, Ballots
    <2>2. /\ g.voter \in ballot[r].asked /\ Settled(r, g.voter)
          /\ VotedFor(g.voter, r, g.end)
        BY DEF LeaseInv, CountedInv
    <2> QED BY <2>1, <2>2, <1>5, <1>6
<1>8. BackedInv'
    <2> SUFFICES ASSUME NEW r \in Replicas, HasLease(r)'
                 PROVE  \E Q \in Quorums : \A v \in Q :
                            Settled(r, v)' /\ VotedFor(v, r, leaseEnd[r])'
        BY <1>2 DEF BackedInv
    <2>1. HasLease(r) /\ now <= leaseEnd[r] /\ leaseEnd[r] \in Nat
        BY <1>1, <1>2, GrantTypes DEF HasLease, LeaseTypeOK, Ballots
    <2>2. PICK Q \in Quorums : \A v \in Q :
              Settled(r, v) /\ VotedFor(v, r, leaseEnd[r])
        BY <2>1 DEF LeaseInv, BackedInv
    <2>3. Q \subseteq Replicas
        BY DEF Quorums
    <2> QED BY <1>2, <1>5, <1>6, <2>1, <2>2, <2>3
<1> QED BY <1>3, <1>4, <1>7, <1>8 DEF LeaseInv

LEMMA AskGrantedInv ==
    ASSUME LeaseInv, NEW r \in Replicas, NEW v \in Replicas, AskGranted(r, v)
    PROVE  LeaseInv'
<1> DEFINE m == Request(r, v)
<1> PICK e \in VoteEnds :
        /\ Grant(m, e)
        /\ ballot' = [ballot EXCEPT ![r] = Counted(@, v, e)]
    BY DEF AskGranted
<1>1. LeaseTypeOK /\ m \in VoteRequests /\ e \in Nat
    BY VoteEndsNat, RequestType DEF LeaseInv
<1>2. /\ now' = now /\ leaseEnd' = leaseEnd
      /\ campaigning' = campaigning /\ late' = late
    BY DEF AskGranted
<1>3. /\ m.candidate = r /\ m.voter = v /\ m.term = ballot[r].term
      /\ r \in campaigning /\ v \notin ballot[r].asked
    BY DEF Request, AskGranted, MayAsk
<1>4. /\ \A s \in Replicas : ballot'[s].term = ballot[s].term
      /\ \A s \in Replicas : s # r => ballot'[s] = ballot[s]
      /\ ballot'[r].asked = ballot[r].asked \cup {v}
      /\ ballot'[r].grants = ballot[r].grants \cup {[voter |-> v, end |-> e]}
      /\ ballot' \in [Replicas -> Ballots]
    <2>1. ballot \in [Replicas -> Ballots]
        BY <1>1 DEF LeaseTypeOK, Ballots
    <2> QED BY <1>1, <2>1, CountedBallot
<1>5. LeaseTypeOK'
    BY <1>1, <1>2, <1>4, GrantTypes DEF LeaseTypeOK, Ballots
<1>6. CampaignInv'
    <2>1. \A s \in campaigning' : role'[s] # "leader"
        BY <1>1, <1>2, GrantTypes DEF LeaseInv, CampaignInv, LeaseTypeOK, Ballots
    <2>2. \A s \in Replicas : ballot'[s].term <= term'[s]
        BY <1>1, <1>4, GrantTypes DEF LeaseInv, CampaignInv, LeaseTypeOK, Ballots
    <2>3. \A l \in late' : l.term <= ballot'[l.candidate].term
        BY <1>1, <1>2, <1>4 DEF LeaseInv, CampaignInv, LeaseTypeOK, Ballots, VoteRequests
    <2>4. \A l \in late' : l.candidate \in campaigning' /\ l.term = ballot'[l.candidate].term
                              => l.voter \in ballot'[l.candidate].asked
        BY <1>1, <1>2, <1>4 DEF LeaseInv, CampaignInv, LeaseTypeOK, Ballots, VoteRequests
    <2> QED BY <2>1, <2>2, <2>3, <2>4 DEF CampaignInv
<1>7. \A s, u \in Replicas : Settled(s, u) => Settled(s, u)'
    BY <1>1, <1>2, <1>4, GrantTypes DEF Settled, LeaseTypeOK, Ballots
<1>8. ASSUME NEW s \in Replicas, NEW u \in Replicas, NEW f \in Nat,
             Settled(s, u), VotedFor(u, s, f), now <= f, s # r \/ u # v
      PROVE  VotedFor(u, s, f)'
    <2>1. v # u
        BY <1>1, <1>3, <1>8, GrantSpares DEF Settled
    <2> QED BY <1>1, <1>3, <1>8, <2>1, GrantTypes DEF VotedFor
<1>9. Settled(r, v)' /\ VotedFor(v, r, e)'
    <2>1. term'[v] = ballot[r].term /\ lastVote'[v] = [candidate |-> r, end |-> e]
        BY <1>1, <1>3 DEF Grant, LeaseTypeOK, Ballots
    <2>2. ASSUME NEW l \in late, l.candidate = r, l.voter = v
          PROVE  l.term < ballot[r].term
        <3>1. l.term \in Nat /\ ballot[r].term \in Nat
            BY <1>1 DEF LeaseTypeOK, Ballots, VoteRequests
        <3>2. l.term <= ballot[r].term
            BY <2>2 DEF LeaseInv, CampaignInv
        <3>3. l.term # ballot[r].term
            BY <1>3, <2>2 DEF LeaseInv, CampaignInv
        <3> QED BY <3>1, <3>2, <3>3
    <2> QED BY <2>1, <2>2, <1>1, <1>2, <1>4 DEF Settled, VotedFor, LeaseTypeOK, Ballots
<1>10. CountedInv'
    <2> SUFFICES ASSUME NEW s \in campaigning, NEW g \in ballot'[s].grants
                 PROVE  /\ g.voter \in ballot'[s].asked
                        /\ Settled(s, g.voter)'
                        /\ now > g.end \/ VotedFor(g.voter, s, g.end)'
        BY <1>2 DEF CountedInv
    <2>1. CASE s = r /\ g = [voter |-> v, end |-> e]
        BY <2>1, <1>4, <1>9
    <2>2. CASE g \in ballot[s].grants
        <3>1. s \in Replicas /\ g.voter \in Replicas /\ g.end \in Nat /\ now \in Nat
            BY <1>1, <2>2 DEF LeaseTypeOK, Ballots
        <3>2. /\ g.voter \in ballot[s].asked /\ Settled(s, g.voter)
              /\ now > g.end \/ VotedFor(g.voter, s, g.end)
            BY <2>2 DEF LeaseInv, CountedInv
        <3>3. s # r \/ g.voter # v
            BY <1>3, <3>2
        <3> QED BY <3>1, <3>2, <3>3, <1>4, <1>7, <1>8
    <2> QED BY <2>1, <2>2, <1>1, <1>4 DEF LeaseTypeOK, Ballots
<1>11. BackedInv'
    <2> SUFFICES ASSUME NEW s \in Replicas, HasLease(s)'
                 PROVE  \E Q \in Quorums : \A u \in Q :
                            Settled(s, u)' /\ VotedFor(u, s, leaseEnd[s])'
        BY <1>2 DEF BackedInv
    <2>1. HasLease(s) /\ now <= leaseEnd[s] /\ leaseEnd[s] \in Nat
        BY <1>1, <1>2, GrantTypes DEF HasLease, LeaseTypeOK, Ballots
    <2>2. PICK Q \in Quorums : \A u \in Q :
              Settled(s, u) /\ VotedFor(u, s, leaseEnd[s])
        BY <2>1 DEF LeaseInv, BackedInv
    <2>3. Q \subseteq Replicas /\ s # r
        BY <2>1, <1>3 DEF Quorums, LeaseInv, CampaignInv, HasLease
    <2> QED BY <1>2, <1>7, <1>8, <2>1, <2>2, <2>3
<1> QED BY <1>5, <1>6, <1>10, <1>11 DEF LeaseInv

(* Steps that touch neither votes nor terms, roles nor lease ends. *)
LEMMA AskedInv ==
    ASSUME LeaseInv, NEW r \in Replicas, NEW v \in Replicas,
           MayAsk(r, v),
           ballot' = [ballot EXCEPT ![r] = Asked(@, v)],
           late' = late \/ late' = late \cup {Request(r, v)},
           UNCHANGED <<now, role, term, leaseEnd, lastVote, campaigning>>
    PROVE  LeaseInv'
<1>1. LeaseTypeOK /\ Request(r, v) \in VoteRequests
    BY RequestType DEF LeaseInv
<1>2. r \in campaigning /\ v \notin ballot[r].asked
    BY DEF MayAsk
<1>3. /\ \A s \in Replicas : ballot'[s].term = ballot[s].term
      /\ \A s \in Replicas : ballot'[s].grants = ballot[s].grants
      /\ \A s \in Replicas : s # r => ballot'[s] = ballot[s]
      /\ ballot'[r].asked = ballot[r].asked \cup {v}
      /\ ballot' \in [Replicas -> Ballots]
    <2>1. ballot \in [Replicas -> Ballots]
        BY <1>1 DEF LeaseTypeOK, Ballots
    <2> QED BY <2>1, AskedBallot
<1>4. \A l \in late' : l \in late \/ (l.candidate = r /\ l.voter = v /\ l.term = ballot[r].term)
    BY DEF Request
<1>5. LeaseTypeOK'
    BY <1>1, <1>3 DEF LeaseTypeOK, Ballots
<1>6. CampaignInv'
    <2>1. \A s \in campaigning' : role'[s] # "leader"
        BY DEF LeaseInv, CampaignInv
    <2>2. \A s \in Replicas : ballot'[s].term <= term'[s]
        BY <1>3 DEF LeaseInv, CampaignInv
    <2>3. \A l \in late' : l.term <= ballot'[l.candidate].term
        BY <1>1, <1>3, <1>4 DEF LeaseInv, CampaignInv, LeaseTypeOK, Ballots, VoteRequests
    <2>4. \A l \in late' : l.candidate \in campaigning' /\ l.term = ballot'[l.candidate].term
                              => l.voter \in ballot'[l.candidate].asked
        BY <1>1, <1>3, <1>4 DEF LeaseInv, CampaignInv, LeaseTypeOK, Ballots, VoteRequests
    <2> QED BY <2>1, <2>2, <2>3, <2>4 DEF CampaignInv
<1>7. \A s, u \in Replicas : Settled(s, u) /\ (s # r \/ u # v) => Settled(s, u)'
    BY <1>1, <1>3, <1>4 DEF Settled
<1>8. CountedInv'
    <2> SUFFICES ASSUME NEW s \in campaigning, NEW g \in ballot[s].grants
                 PROVE  /\ g.voter \in ballot'[s].asked
                        /\ Settled(s, g.voter)'
                        /\ now > g.end \/ VotedFor(g.voter, s, g.end)'
        BY <1>1, <1>3 DEF CountedInv, LeaseTypeOK, Ballots
    <2>1. s \in Replicas /\ g.voter \in Replicas
        BY <1>1 DEF LeaseTypeOK, Ballots
    <2>2. /\ g.voter \in ballot[s].asked /\ Settled(s, g.voter)
          /\ now > g.end \/ VotedFor(g.voter, s, g.end)
        BY DEF LeaseInv, CountedInv
    <2> QED BY <1>2, <1>3, <1>7, <2>1, <2>2 DEF VotedFor
<1>9. BackedInv'
    <2> SUFFICES ASSUME NEW s \in Replicas, HasLease(s)
                 PROVE  \E Q \in Quorums : \A u \in Q :
                            Settled(s, u)' /\ VotedFor(u, s, leaseEnd[s])
        BY DEF BackedInv, HasLease, VotedFor
    <2>1. s # r
        BY <1>2 DEF LeaseInv, CampaignInv, HasLease
    <2> QED BY <1>7, <2>1 DEF LeaseInv, BackedInv, Quorums
<1> QED BY <1>5, <1>6, <1>8, <1>9 DEF LeaseInv

LEMMA LateRefuseInv ==
    ASSUME LeaseInv, NEW m \in late, LateRefuse(m)
    PROVE  LeaseInv'
<1> USE DEF LateRefuse
<1>1. LeaseTypeOK'
    BY DEF LeaseInv, LeaseTypeOK, Ballots
<1>2. CampaignInv'
    BY DEF LeaseInv, CampaignInv
<1>3. \A r, v \in Replicas : Settled(r, v) => Settled(r, v)'
    BY DEF Settled
<1>4. CountedInv'
    BY <1>3 DEF LeaseInv, CountedInv, VotedFor, LeaseTypeOK, Ballots
<1>5. BackedInv'
    BY <1>3 DEF LeaseInv, BackedInv, HasLease, VotedFor, Quorums
<1> QED BY <1>1, <1>2, <1>4, <1>5 DEF LeaseInv

(* Counting leaves the votes alone: it ends the campaign of r. *)
LEMMA CloseBallot ==
    ASSUME LeaseTypeOK, NEW r \in Replicas,
           ballot' = [ballot EXCEPT ![r] = NoBallot(@.term)],
           UNCHANGED <<now, term, lastVote, late>>
    PROVE  /\ ballot' \in [Replicas -> Ballots]
           /\ \A s \in Replicas : ballot'[s].term = ballot[s].term
           /\ \A s \in Replicas : s # r => ballot'[s] = ballot[s]
           /\ \A s, v \in Replicas : Settled(s, v)' = Settled(s, v)
           /\ \A s, v \in Replicas, e \in Nat : VotedFor(v, s, e)' = VotedFor(v, s, e)
<1>1. \A s \in Replicas : ballot[s].term \in Nat
    BY DEF LeaseTypeOK, Ballots
<1>2. \A t \in Nat : NoBallot(t) \in Ballots /\ NoBallot(t).term = t
    BY DEF NoBallot, Ballots
<1>3. \A s \in Replicas : ballot'[s].term = ballot[s].term
    BY <1>1, <1>2 DEF LeaseTypeOK
<1>4. \A s, v \in Replicas : Settled(s, v)' = Settled(s, v)
    BY <1>3 DEF Settled
<1>5. \A s, v \in Replicas, e \in Nat : VotedFor(v, s, e)' = VotedFor(v, s, e)
    BY DEF VotedFor
<1>6. ballot' \in [Replicas -> Ballots]
    BY <1>1, <1>2 DEF LeaseTypeOK
<1> QED BY <1>3, <1>4, <1>5, <1>6 DEF LeaseTypeOK

(* The smallest end of a quorum of votes is a lease they back, unless it is
   over by the time they are counted. *)
LEMMA WinInv ==
    ASSUME LeaseInv, NEW r \in Replicas, Win(r)
    PROVE  LeaseInv'
<1>1. LeaseTypeOK
    BY DEF LeaseInv
<1>2. /\ r \in campaigning
      /\ Voters(r) \in Quorums
      /\ role' = [role EXCEPT ![r] = "leader"]
      /\ campaigning' = campaigning \ {r}
      /\ ballot' = [ballot EXCEPT ![r] = NoBallot(@.term)]
      /\ now' = now /\ term' = term /\ lastVote' = lastVote /\ late' = late
    BY DEF Win
<1>3. PICK g \in ballot[r].grants :
          /\ \A h \in ballot[r].grants : g.end <= h.end
          /\ leaseEnd' = [leaseEnd EXCEPT ![r] = g.end]
    BY DEF Win
<1>4. /\ ballot' \in [Replicas -> Ballots]
      /\ \A s \in Replicas : ballot'[s].term = ballot[s].term
      /\ \A s \in Replicas : s # r => ballot'[s] = ballot[s]
      /\ \A s, v \in Replicas : Settled(s, v)' = Settled(s, v)
      /\ \A s, v \in Replicas, e \in Nat : VotedFor(v, s, e)' = VotedFor(v, s, e)
    BY <1>1, <1>2, CloseBallot
<1>5. /\ g.end \in Nat
      /\ \A h \in ballot[r].grants : h.voter \in Replicas /\ h.end \in Nat
    BY <1>1 DEF LeaseTypeOK, Ballots
<1>6. LeaseTypeOK'
    BY <1>1, <1>2, <1>3, <1>4, <1>5 DEF LeaseTypeOK
<1>7. CampaignInv'
    BY <1>1, <1>2, <1>4 DEF LeaseInv, CampaignInv, LeaseTypeOK, VoteRequests
<1>8. CountedInv'
    <2> SUFFICES ASSUME NEW s \in campaigning \ {r}, NEW h \in ballot[s].grants
                 PROVE  /\ h.voter \in ballot[s].asked
                        /\ Settled(s, h.voter)'
                        /\ now > h.end \/ VotedFor(h.voter, s, h.end)'
        BY <1>1, <1>2, <1>4 DEF CountedInv, LeaseTypeOK
    <2>1. s \in Replicas /\ h.voter \in Replicas /\ h.end \in Nat
        BY <1>1 DEF LeaseTypeOK, Ballots
    <2> QED BY <2>1, <1>4 DEF LeaseInv, CountedInv
<1>9. BackedInv'
    <2> SUFFICES ASSUME NEW s \in Replicas, HasLease(s)'
                 PROVE  \E Q \in Quorums : \A v \in Q :
                            Settled(s, v)' /\ VotedFor(v, s, leaseEnd[s])'
        BY <1>3 DEF BackedInv, VotedFor
    <2>1. CASE s # r
        <3>1. HasLease(s) /\ leaseEnd'[s] = leaseEnd[s] /\ leaseEnd[s] \in Nat
            BY <1>1, <1>2, <1>3, <2>1 DEF HasLease, LeaseTypeOK
        <3>2. PICK Q \in Quorums : \A v \in Q :
                  Settled(s, v) /\ VotedFor(v, s, leaseEnd[s])
            BY <3>1 DEF LeaseInv, BackedInv
        <3>3. Q \subseteq Replicas
            BY DEF Quorums
        <3> QED BY <3>1, <3>2, <3>3, <1>4
    <2>2. CASE s = r
        <3>1. leaseEnd'[r] = g.end /\ now < g.end
            BY <1>1, <1>2, <1>3, <2>2 DEF HasLease, LeaseTypeOK
        <3>2. ASSUME NEW v \in Voters(r)
              PROVE  v \in Replicas /\ Settled(r, v) /\ VotedFor(v, r, g.end)
            <4>1. PICK h \in ballot[r].grants : h.voter = v
                BY DEF Voters
            <4>2. /\ h.end \in Nat /\ now \in Nat /\ g.end <= h.end
                  /\ lastVote[v].end \in Nat /\ v \in Replicas
                BY <1>1, <1>3, <1>5, <4>1 DEF LeaseTypeOK
            <4>3. Settled(r, v) /\ (now > h.end \/ VotedFor(v, r, h.end))
                BY <1>2, <4>1 DEF LeaseInv, CountedInv
            <4> QED BY <1>5, <3>1, <4>2, <4>3 DEF VotedFor
        <3>3. \A v \in Voters(r) : Settled(r, v)' /\ VotedFor(v, r, g.end)'
            BY <1>4, <1>5, <3>2
        <3> QED BY <1>2, <2>2, <3>1, <3>3
    <2> QED BY <2>1, <2>2
<1> QED BY <1>6, <1>7, <1>8, <1>9 DEF LeaseInv

LEMMA LoseInv ==
    ASSUME LeaseInv, NEW r \in Replicas, Lose(r)
    PROVE  LeaseInv'
<1>1. LeaseTypeOK
    BY DEF LeaseInv
<1>2. /\ r \in campaigning
      /\ role' = [role EXCEPT ![r] = "follower"]
      /\ campaigning' = campaigning \ {r}
      /\ ballot' = [ballot EXCEPT ![r] = NoBallot(@.term)]
      /\ now' = now /\ term' = term /\ lastVote' = lastVote /\ late' = late
      /\ leaseEnd' = leaseEnd
    BY DEF Lose
<1>4. /\ ballot' \in [Replicas -> Ballots]
      /\ \A s \in Replicas : ballot'[s].term = ballot[s].term
      /\ \A s \in Replicas : s # r => ballot'[s] = ballot[s]
      /\ \A s, v \in Replicas : Settled(s, v)' = Settled(s, v)
      /\ \A s, v \in Replicas, e \in Nat : VotedFor(v, s, e)' = VotedFor(v, s, e)
    BY <1>1, <1>2, CloseBallot
<1>6. LeaseTypeOK'
    BY <1>1, <1>2, <1>4 DEF LeaseTypeOK
<1>7. CampaignInv'
    BY <1>1, <1>2, <1>4 DEF LeaseInv, CampaignInv, LeaseTypeOK, VoteRequests
<1>8. CountedInv'
    <2> SUFFICES ASSUME NEW s \in campaigning \ {r}, NEW h \in ballot[s].grants
                 PROVE  /\ h.voter \in ballot[s].asked
                        /\ Settled(s, h.voter)'
                        /\ now > h.end \/ VotedFor(h.voter, s, h.end)'
        BY <1>1, <1>2, <1>4 DEF CountedInv, LeaseTypeOK
    <2>1. s \in Replicas /\ h.voter \in Replicas /\ h.end \in Nat
        BY <1>1 DEF LeaseTypeOK, Ballots
    <2> QED BY <2>1, <1>4 DEF LeaseInv, CountedInv
<1>9. BackedInv'
    <2>1. \A s \in Replicas : HasLease(s)' => HasLease(s) /\ leaseEnd[s] \in Nat
        BY <1>1, <1>2 DEF HasLease, LeaseTypeOK
    <2>2. \A Q \in Quorums : Q \subseteq Replicas
        BY DEF Quorums
    <2> QED BY <1>2, <1>4, <2>1, <2>2 DEF LeaseInv, BackedInv
<1> QED BY <1>6, <1>7, <1>8, <1>9 DEF LeaseInv

LEMMA AcceptTermInv ==
    ASSUME LeaseInv, NEW r \in Replicas, NEW v \in Replicas, AcceptTerm(r, v)
    PROVE  LeaseInv'
<1>1. LeaseTypeOK
    BY DEF LeaseInv
<1>2. /\ term' \in [Replicas -> Nat]
      /\ \A s \in Replicas : term'[s] >= term[s]
    BY <1>1 DEF AcceptTerm, LeaseTypeOK
<1>3. UNCHANGED <<now, role, leaseEnd, lastVote, ballot, campaigning, late>>
    BY DEF AcceptTerm
<1>4. LeaseTypeOK'
    BY <1>1, <1>2, <1>3 DEF LeaseTypeOK
<1>5. CampaignInv'
    BY <1>1, <1>2, <1>3 DEF LeaseInv, CampaignInv, LeaseTypeOK, Ballots
<1>6. \A s, u \in Replicas : Settled(s, u) => Settled(s, u)'
    BY <1>1, <1>2, <1>3 DEF Settled, LeaseTypeOK, Ballots
<1>7. CountedInv'
    BY <1>1, <1>3, <1>6 DEF LeaseInv, CountedInv, VotedFor, LeaseTypeOK, Ballots
<1>8. BackedInv'
    BY <1>3, <1>6 DEF LeaseInv, BackedInv, HasLease, VotedFor, Quorums
<1> QED BY <1>4, <1>5, <1>7, <1>8 DEF LeaseInv

LEMMA LeaseNextInv == LeaseInv /\ [LeaseNext]_leaseVars => LeaseInv'
<1> SUFFICES ASSUME LeaseInv, [LeaseNext]_leaseVars PROVE LeaseInv'
    OBVIOUS
<1>1. CASE Tick
    BY <1>1, TickInv
<1>2. ASSUME NEW r \in Candidates, RequestLeadership(r) PROVE LeaseInv'
    BY <1>2, ReplicasAssumption, RequestLeadershipInv
<1>3. ASSUME NEW r \in Replicas, Win(r) \/ Lose(r) PROVE LeaseInv'
    BY <1>3, WinInv, LoseInv
<1>4. ASSUME NEW r \in Replicas, NEW v \in Replicas, AskGranted(r, v)
      PROVE  LeaseInv'
    BY <1>4, AskGrantedInv
<1>5. ASSUME NEW r \in Replicas, NEW v \in Replicas,
             AskRefused(r, v) \/ AskUnanswered(r, v)
      PROVE  LeaseInv'
    BY <1>5, AskedInv DEF AskRefused, AskUnanswered
<1>6. ASSUME NEW r \in Replicas, NEW v \in Replicas, AcceptTerm(r, v)
      PROVE  LeaseInv'
    BY <1>6, AcceptTermInv
<1>7. ASSUME NEW m \in late, LateRefuse(m) \/ LateGrant(m) PROVE LeaseInv'
    BY <1>7, LateRefuseInv, LateGrantInv
<1>8. CASE UNCHANGED leaseVars
    <2>1. \A r, v : Settled(r, v)' = Settled(r, v)
        BY <1>8 DEF leaseVars, Settled
    <2>2. \A r, v, e : VotedFor(v, r, e)' = VotedFor(v, r, e)
        BY <1>8 DEF leaseVars, VotedFor
    <2>3. LeaseTypeOK' /\ CampaignInv'
        BY <1>8 DEF LeaseInv, leaseVars, LeaseTypeOK, CampaignInv
    <2>4. CountedInv' /\ BackedInv'
        BY <1>8, <2>1, <2>2 DEF LeaseInv, leaseVars, CountedInv, BackedInv, HasLease
    <2> QED BY <2>3, <2>4 DEF LeaseInv
<1> QED BY <1>1, <1>2, <1>3, <1>4, <1>5, <1>6, <1>7, <1>8 DEF LeaseNext

(* The whole invariant, from which the theorems below follow. *)
THEOREM LeaseInvariant == LeaseSpec => []LeaseInv
<1>1. LeaseInit => LeaseInv
    BY LeaseInitInv
<1>2. LeaseInv /\ [LeaseNext]_leaseVars => LeaseInv'
    BY LeaseNextInv
<1> QED BY <1>1, <1>2, PTL DEF LeaseSpec

(* Every variable of the election keeps its type. *)
THEOREM LeaseTypeCorrect == LeaseSpec => []LeaseTypeOK
<1>1. LeaseInv => LeaseTypeOK
    BY DEF LeaseInv
<1> QED BY <1>1, LeaseInvariant, PTL

(* A lease in force is covered to its end by a quorum of outstanding votes. *)
THEOREM LeaseBackedHolds == LeaseSpec => []LeaseBacked
<1>1. LeaseInv => LeaseBacked
    BY DEF LeaseInv, BackedInv, LeaseBacked, VotedFor
<1> QED BY <1>1, LeaseInvariant, PTL

(* No two replicas hold the lease at one time: the quorums behind two leases
   share a voter, and a vote is for one candidate. *)
THEOREM LeaseDisjointHolds == LeaseSpec => []LeaseDisjoint
<1>1. LeaseInv => LeaseDisjoint
    <2> SUFFICES ASSUME LeaseInv, NEW r \in Replicas, NEW s \in Replicas,
                        HasLease(r), HasLease(s)
                 PROVE  r = s
        BY DEF LeaseDisjoint
    <2>1. PICK P \in Quorums : \A v \in P : VotedFor(v, r, leaseEnd[r])
        BY DEF LeaseInv, BackedInv
    <2>2. PICK Q \in Quorums : \A v \in Q : VotedFor(v, s, leaseEnd[s])
        BY DEF LeaseInv, BackedInv
    <2>3. PICK v \in P : v \in Q
        BY QuorumsIntersect
    <2> QED BY <2>1, <2>2, <2>3 DEF VotedFor
<1> QED BY <1>1, LeaseInvariant, PTL

(* No vote, accept or election ever lowers the term of a replica. *)
THEOREM TermsGrowHolds == LeaseSpec => TermsGrow
<1>1. LeaseInv /\ [LeaseNext]_leaseVars
        => [\A r \in Replicas : term'[r] >= term[r]]_leaseVars
    <2> SUFFICES ASSUME LeaseInv, LeaseNext
                 PROVE  \A r \in Replicas : term'[r] >= term[r]
        OBVIOUS
    <2>1. LeaseTypeOK /\ \A m \in late : m \in VoteRequests
        BY DEF LeaseInv, LeaseTypeOK
    <2>2. ASSUME NEW m \in VoteRequests, NEW e \in VoteEnds, Grant(m, e)
          PROVE  \A r \in Replicas : term'[r] >= term[r]
        BY <2>1, <2>2, GrantTypes, VoteEndsNat
    <2>3. CASE UNCHANGED term
        BY <2>1, <2>3 DEF LeaseTypeOK
    <2>4. ASSUME NEW r \in Candidates, RequestLeadership(r)
          PROVE  \A s \in Replicas : term'[s] >= term[s]
        BY <2>1, <2>4 DEF RequestLeadership, LeaseTypeOK
    <2>5. ASSUME NEW r \in Replicas, NEW v \in Replicas, AcceptTerm(r, v)
          PROVE  \A s \in Replicas : term'[s] >= term[s]
        BY <2>1, <2>5 DEF AcceptTerm, LeaseTypeOK
    <2>6. ASSUME NEW r \in Replicas, NEW v \in Replicas, AskGranted(r, v)
          PROVE  \A s \in Replicas : term'[s] >= term[s]
        BY <2>1, <2>2, <2>6, RequestType DEF AskGranted
    <2>7. ASSUME NEW m \in late, LateGrant(m)
          PROVE  \A s \in Replicas : term'[s] >= term[s]
        BY <2>1, <2>2, <2>7 DEF LateGrant
    <2> QED BY <2>3, <2>4, <2>5, <2>6, <2>7
            DEF LeaseNext, Tick, Win, Lose, AskRefused, AskUnanswered, LateRefuse
<1> QED BY <1>1, LeaseInvariant, PTL DEF LeaseSpec, TermsGrow
=============================================================================
