------------------------------ MODULE PaxosGroup ------------------------------
(***************************************************************************)
(* The replicated log of a Paxos group (replication/paxos/paxos_group.py): *)
(* elections, the sync of a new leader, proposals, the re-drive of slots   *)
(* left uncommitted, and the acceptor's handlers.  A send is a call: it    *)
(* asks one replica, in the order of the list, and the request, the reply  *)
(* or both may be lost, or the request be handled after the caller has     *)
(* given up.  Time is left to PaxosLease: here a vote binds its voter, and *)
(* a lease lasts, until some moment; a lease ends before its votes do.     *)
(*                                                                         *)
(* The log is safe while five Conditions hold that nothing in the code     *)
(* enforces.  Steps that break them are steps like all others; `kept'      *)
(* remembers which conditions no step so far has broken.                   *)
(***************************************************************************)
EXTENDS Integers, FiniteSets, Sequences, FiniteSetsExt

CONSTANTS Members,      \* the replicas are 1..Members, in list order
          Unreliable,   \* those to which calls may fail
          Candidates,   \* those on which request_leadership is called
          Callers,      \* threads that call request_leadership and propose
          MaxTerm, MaxSlot, MaxProposals, MaxLate, MaxLateTerm   \* bounds

ASSUME BoundsAssumption ==
    {Members, MaxTerm, MaxSlot, MaxProposals, MaxLate, MaxLateTerm} \subseteq Nat /\ Members > 0
    /\ Candidates \cup Unreliable \subseteq 1..Members
Conditions ==
    {"own terms",         \* no two elections use one term number
     "voters answer",     \* those that voted for a leader answer its sync
     "commits follow",    \* a commit reaches only replicas that accepted in its round, or later
     "term stands",       \* no term is raised while votes are counted or propose prepares
     "synced first"}      \* no propose before the election has returned

Replicas == 1..Members
Slots == 1..MaxSlot
Values == 1..MaxProposals
NoEntry == [term |-> 0, value |-> 0]
EmptyLog == [s \in Slots |-> NoEntry]
FaultyIsQuorum(Q) == Cardinality(Q) >= Members \div 2  \* a mutant: half is enough
IsQuorum(Q) == Cardinality(Q) >= Members \div 2 + 1

VARIABLES
    role, term,      \* PaxosGroup.state, .term
    vote,            \* the candidate of an outstanding last_vote, or 0
    backers,         \* the voters behind a lease not yet over
    log, committed, nextSlot, applied,
    job,             \* what each caller is in the middle of
    late, lateVotes, lateCommits,   \* requests not handled when their sender gave up
    used, proposals, chosen, kept   \* history

vars == <<role, term, vote, backers, log, committed, nextSlot, applied, job,
          late, lateVotes, lateCommits, used, proposals, chosen, kept>>
electing == <<vote, backers>>
logging == <<log, nextSlot>>
applying == <<committed, applied>>
lates == <<late, lateVotes, lateCommits>>
history == <<used, proposals, chosen, kept>>

(* phase: what the caller does next; asked: the replicas called so far in
   the current loop; yes: those that said yes; todo: entries to drive, the
   one with the lowest slot first; ready: propose has read the term and
   taken a slot *)
Idle == [phase |-> "idle", at |-> 1, term |-> 0, asked |-> 0, yes |-> {},
         lapsed |-> FALSE, merged |-> EmptyLog, todo |-> {}, calls |-> "none", ready |-> TRUE]

Init ==
    /\ role = [r \in Replicas |-> "follower"]
    /\ term = [r \in Replicas |-> 0]
    /\ vote = [r \in Replicas |-> 0]
    /\ backers = [r \in Replicas |-> {}]
    /\ log = [r \in Replicas |-> EmptyLog]
    /\ committed = [r \in Replicas |-> {}]
    /\ nextSlot = [r \in Replicas |-> 1]
    /\ applied = [r \in Replicas |-> <<>>]
    /\ job = [c \in Callers |-> Idle]
    /\ late = {} /\ lateVotes = {} /\ lateCommits = {}
    /\ used = {}
    /\ proposals = 0
    /\ chosen = [s \in Slots |-> {}]
    /\ kept = Conditions

MayFail(c, v) == v \in Unreliable \ {job[c].at}
Next1(c) == job[c].asked + 1
Asking(c, phase) == job[c].phase = phase /\ job[c].asked < Members
AskedAll(c, phase) == job[c].phase = phase /\ job[c].asked = Members
Asked(j, v, ok) == [j EXCEPT !.asked = v, !.yes = IF ok THEN @ \cup {v} ELSE @]
Phase(j, p) == [j EXCEPT !.phase = p, !.asked = 0, !.yes = {}]
(* Drive these entries; a call that has none left returns. *)
Drive(j, entries) == IF entries = {} /\ j.ready THEN Idle
                     ELSE [Phase(j, "drive") EXCEPT !.todo = entries]
First(entries) == CHOOSE e \in entries : \A f \in entries : e.slot <= f.slot
DriveRest(j) == Drive(j, j.todo \ {First(j.todo)})

(* request_leadership counts votes for a term that r may have left since;
   propose at r has seen its lease and reads the term afterwards. *)
Preparing(r) == \E c \in Callers : job[c].at = r /\ ~job[c].ready
Counting(r) == \E c \in Callers : job[c].at = r /\ job[c].phase = "vote"
Raised(r, t) == t > term[r] /\ (Preparing(r) \/ Counting(r))

(* The conditions that are true of a step stay kept. *)
Broken(condition, broken) == IF broken THEN {condition} ELSE {}
Keep(broken) == kept' = kept \ broken

(* A request whose sender gives up may be handled later: at most MaxLate wait at a
   time, and only those of the terms up to MaxLateTerm. *)
Waiting(requests, m) ==
    IF /\ Cardinality(late) + Cardinality(lateVotes) + Cardinality(lateCommits) < MaxLate
       /\ m.term <= MaxLateTerm
    THEN requests \cup {m} ELSE requests

-----------------------------------------------------------------------------
(* Leadership *)

HasLease(r) == role[r] = "leader" /\ backers[r] # {}

RequestLeadership(c, r) ==
    /\ job[c].phase = "idle" /\ term[r] < MaxTerm
    /\ Keep(Broken("own terms", term[r] + 1 \in used)
            \cup Broken("term stands", Raised(r, term[r] + 1)))
    /\ role' = [role EXCEPT ![r] = "candidate"]
    /\ term' = [term EXCEPT ![r] = @ + 1]
    /\ used' = used \cup {term'[r]}
    /\ job' = [job EXCEPT ![c] = [Idle EXCEPT !.phase = "vote", !.calls = "election", !.at = r, !.term = term'[r]]]
    /\ UNCHANGED <<electing, logging, applying, lates, proposals, chosen>>

(* _on_lease_vote grants: not an old term, no outstanding vote for another *)
Grants(v, candidate, t) == t >= term[v] /\ vote[v] \in {0, candidate}

Vote(v, candidate, t) ==
    /\ Grants(v, candidate, t)
    /\ term' = [term EXCEPT ![v] = t]
    /\ role' = IF v # candidate THEN [role EXCEPT ![v] = "follower"] ELSE role
    /\ vote' = [vote EXCEPT ![v] = candidate]
    /\ Keep(Broken("term stands", Raised(v, t)))

AskVote(c) ==
    LET v == Next1(c) IN
    /\ Asking(c, "vote") /\ Vote(v, job[c].at, job[c].term)
    /\ \E heard \in {TRUE} \cup (IF MayFail(c, v) THEN {FALSE} ELSE {}) :
           job' = [job EXCEPT ![c] = Asked(@, v, heard)]
    /\ UNCHANGED <<backers, logging, applying, lates, used, proposals, chosen>>

NoVote(c) ==
    LET v == Next1(c)  m == [to |-> v, candidate |-> job[c].at, term |-> job[c].term] IN
    /\ Asking(c, "vote")
    /\ \/ ~Grants(v, job[c].at, job[c].term) /\ UNCHANGED lateVotes
       \/ MayFail(c, v) /\ lateVotes' = Waiting(lateVotes, m)
    /\ job' = [job EXCEPT ![c] = Asked(@, v, FALSE)]
    /\ UNCHANGED <<role, term, electing, logging, applying, late, lateCommits, history>>

(* Handled after all, like the late requests below; one that never is simply stays. *)
LateVote(m) ==
    /\ m \in lateVotes /\ lateVotes' = lateVotes \ {m}
    /\ \/ Vote(m.to, m.candidate, m.term)
       \/ ~Grants(m.to, m.candidate, m.term) /\ UNCHANGED <<term, role, vote, kept>>
    /\ UNCHANGED <<backers, logging, applying, job, late, lateCommits, used, proposals, chosen>>

(* A quorum of grants makes the leader; its lease ends with the first vote. *)
Win(c) ==
    LET j == job[c] IN
    /\ AskedAll(c, "vote") /\ IsQuorum(j.yes)
    /\ role' = [role EXCEPT ![j.at] = "leader"]
    /\ backers' = [backers EXCEPT ![j.at] = IF j.lapsed THEN {} ELSE j.yes]
    /\ job' = [job EXCEPT ![c] = [@ EXCEPT !.phase = "sync", !.asked = 0, !.lapsed = FALSE]]
    /\ UNCHANGED <<term, vote, logging, applying, lates, history>>

Lose(c) ==
    /\ AskedAll(c, "vote") /\ ~IsQuorum(job[c].yes)
    /\ role' = [role EXCEPT ![job[c].at] = "follower"]
    /\ job' = [job EXCEPT ![c] = Idle]
    /\ UNCHANGED <<term, electing, logging, applying, lates, history>>

LeaseEnds(r) ==
    /\ backers[r] # {}
    /\ backers' = [backers EXCEPT ![r] = {}]
    /\ UNCHANGED <<role, term, vote, logging, applying, job, lates, history>>

VoteEnds(v) ==
    /\ vote[v] # 0 /\ v \notin backers[vote[v]]
    /\ vote' = [vote EXCEPT ![v] = 0]
    /\ job' = [c \in Callers |->
          IF job[c].phase = "vote" /\ job[c].at = vote[v] /\ v \in job[c].yes
          THEN [job[c] EXCEPT !.lapsed = TRUE] ELSE job[c]]
    /\ UNCHANGED <<role, term, backers, logging, applying, lates, history>>

-----------------------------------------------------------------------------
(* The sync of a new leader: of two entries for a slot the one with the
   higher term stays, the one found first when the terms are equal. *)

Merge(mine, theirs) ==
    [s \in Slots |-> IF mine[s].term < theirs[s].term THEN theirs[s] ELSE mine[s]]

(* A mutant: the replies leave out the committed slots. *)
FaultySync(c) ==
    LET v == Next1(c) IN
    /\ Asking(c, "sync")
    /\ job' = [job EXCEPT ![c] = [@ EXCEPT !.asked = v, !.merged = Merge(job[c].merged,
                  [s \in Slots |-> IF s \in committed[v] THEN NoEntry ELSE log[v][s]])]]
    /\ UNCHANGED <<role, term, electing, logging, applying, lates, history>>

Sync(c) ==
    LET v == Next1(c) IN
    /\ Asking(c, "sync")
    /\ \/ /\ job' = [job EXCEPT ![c] = [@ EXCEPT !.asked = v, !.merged = Merge(job[c].merged, log[v])]]
          /\ UNCHANGED kept
       \/ /\ MayFail(c, v)
          /\ job' = [job EXCEPT ![c] = [@ EXCEPT !.asked = v]]
          /\ Keep(Broken("voters answer", v \in job[c].yes))
    /\ UNCHANGED <<role, term, electing, logging, applying, lates, used, proposals, chosen>>

(* The entries a log holds, as entries to drive. *)
Entries(l) == {[slot |-> s, value |-> l[s].value] : s \in {s \in Slots : l[s] # NoEntry}}

Larger(a, b) == IF a > b THEN a ELSE b

(* All the entries found are driven again, under the term of the election. *)
SyncDone(c) ==
    LET j == job[c]  found == Entries(j.merged) IN
    /\ AskedAll(c, "sync")
    /\ nextSlot' = [nextSlot EXCEPT ![j.at] = Max({@} \cup {e.slot + 1 : e \in found})]
    /\ job' = [job EXCEPT ![c] = Drive([@ EXCEPT !.merged = EmptyLog], found)]
    /\ UNCHANGED <<role, term, electing, log, applying, lates, history>>

-----------------------------------------------------------------------------
(* Proposals *)

(* An election of r has not returned yet. *)
ElectionRuns(r) == \E d \in Callers : job[d].at = r /\ job[d].phase # "idle" /\ job[d].calls = "election"

(* has_lease *)
StartPropose(c, r) ==
    /\ job[c].phase = "idle" /\ HasLease(r)
    /\ proposals < MaxProposals /\ nextSlot[r] <= MaxSlot
    /\ Keep(Broken("synced first", ElectionRuns(r)))
    /\ job' = [job EXCEPT ![c] = [Idle EXCEPT !.phase = "redrive", !.at = r, !.calls = "propose", !.ready = FALSE]]
    /\ UNCHANGED <<role, term, electing, logging, applying, lates, used, proposals, chosen>>

(* _redrive_uncommitted drives again what this replica has accepted and
   does not know committed, under the term it has now. *)
Redrive(c) ==
    LET r == job[c].at IN
    /\ job[c].phase = "redrive"
    /\ job' = [job EXCEPT ![c] = Drive([@ EXCEPT !.term = term[r]],
                                       Entries([s \in Slots |-> IF s \in committed[r] THEN NoEntry ELSE log[r][s]]))]
    /\ UNCHANGED <<role, term, electing, logging, applying, lates, history>>

(* ... and then propose takes the next slot, and reads the term again. *)
TakeSlot(c) ==
    LET r == job[c].at IN
    /\ job[c].phase = "drive" /\ job[c].todo = {} /\ ~job[c].ready
    /\ IF nextSlot[r] \in Slots /\ proposals < MaxProposals
       THEN /\ proposals' = proposals + 1
            /\ nextSlot' = [nextSlot EXCEPT ![r] = @ + 1]
            /\ job' = [job EXCEPT ![c] = Drive([@ EXCEPT !.term = term[r], !.ready = TRUE],
                  {[slot |-> nextSlot[r], value |-> proposals']})]
       ELSE job' = [job EXCEPT ![c] = Idle] /\ UNCHANGED <<proposals, nextSlot>>
    /\ UNCHANGED <<role, term, electing, log, applying, lates, used, chosen, kept>>

(* _on_accept *)
Accept(m) ==
    /\ m.term >= term[m.to]
    /\ term' = [term EXCEPT ![m.to] = m.term]
    /\ log' = [log EXCEPT ![m.to][m.slot] = [term |-> m.term, value |-> m.value]]
    /\ nextSlot' = [nextSlot EXCEPT ![m.to] = Larger(@, m.slot + 1)]
    /\ Keep(Broken("term stands", Raised(m.to, m.term)))

Driving(c) == Asking(c, "drive") /\ job[c].todo # {}
Request(c) == LET e == First(job[c].todo) IN
    [to |-> Next1(c), term |-> job[c].term, slot |-> e.slot, value |-> e.value]

AskAccept(c) ==
    LET v == Next1(c) IN
    /\ Driving(c) /\ Accept(Request(c))
    /\ \E heard \in {TRUE} \cup (IF MayFail(c, v) THEN {FALSE} ELSE {}) :
           job' = [job EXCEPT ![c] = Asked(@, v, heard)]
    /\ UNCHANGED <<role, electing, applying, lates, used, proposals, chosen>>

NoAccept(c) ==
    LET v == Next1(c) IN
    /\ Driving(c)
    /\ \/ job[c].term < term[v] /\ UNCHANGED late
       \/ MayFail(c, v) /\ late' = Waiting(late, Request(c))
    /\ job' = [job EXCEPT ![c] = Asked(@, v, FALSE)]
    /\ UNCHANGED <<role, term, electing, logging, applying, lateVotes, lateCommits, history>>

LateAccept(m) ==
    /\ m \in late /\ late' = late \ {m}
    /\ \/ Accept(m)
       \/ m.term < term[m.to] /\ UNCHANGED <<term, logging, kept>>
    /\ UNCHANGED <<role, electing, applying, job, lateVotes, lateCommits, used, proposals, chosen>>

(* A quorum of accepts is followed by commit notifications to everyone;
   without it propose fails, while a re-drive goes on with the next slot. *)
Chosen(c) ==
    LET e == First(job[c].todo) IN
    /\ AskedAll(c, "drive") /\ job[c].todo # {} /\ IsQuorum(job[c].yes)
    /\ chosen' = [chosen EXCEPT ![e.slot] = @ \cup {e.value}]
    /\ job' = [job EXCEPT ![c] = Phase(@, "commit")]
    /\ UNCHANGED <<role, term, electing, logging, applying, lates, used, proposals, kept>>

(* A mutant: a failed propose gives its slot back. *)
FaultyNotChosen(c) ==
    LET e == First(job[c].todo) IN
    /\ AskedAll(c, "drive") /\ job[c].todo # {} /\ ~IsQuorum(job[c].yes)
    /\ nextSlot' = IF job[c].calls = "propose" /\ job[c].ready
                   THEN [nextSlot EXCEPT ![job[c].at] = e.slot] ELSE nextSlot
    /\ job' = [job EXCEPT ![c] = DriveRest(@)]
    /\ UNCHANGED <<role, term, electing, log, applying, lates, history>>

NotChosen(c) ==
    /\ AskedAll(c, "drive") /\ job[c].todo # {} /\ ~IsQuorum(job[c].yes)
    /\ job' = [job EXCEPT ![c] = DriveRest(@)]
    /\ UNCHANGED <<role, term, electing, logging, applying, lates, history>>

(* _on_commit: the notification names the slot only, and what is committed,
   and applied once the slots before it are, is what this replica holds. *)
Ready(r, commits) ==
    {n \in Slots : \A s \in 1..n : s \in commits /\ log[r][s] # NoEntry}
ApplyReady(r, commits) ==
    [applied EXCEPT ![r] =
        @ \o [i \in 1..Cardinality({n \in Ready(r, commits) : n > Len(@)}) |->
                 log[r][Len(applied[r]) + i].value]]

Notified(j, v) == IF v = Members THEN DriveRest(j) ELSE Asked(j, v, FALSE)

(* v is told that a slot was chosen in a round of term t. *)
Commit(v, s, t) ==
    IF log[v][s] = NoEntry THEN UNCHANGED <<applying, kept>>
    ELSE /\ committed' = [committed EXCEPT ![v] = @ \cup {s}]
         /\ applied' = ApplyReady(v, committed'[v])
         /\ Keep(Broken("commits follow", log[v][s].term < t))

Notify(c) ==
    LET v == Next1(c) IN
    /\ Asking(c, "commit")
    /\ Commit(v, First(job[c].todo).slot, job[c].term)
    /\ job' = [job EXCEPT ![c] = Notified(@, v)]
    /\ UNCHANGED <<role, term, electing, logging, lates, used, proposals, chosen>>

NotifyLost(c) ==
    LET v == Next1(c)
        m == [to |-> v, slot |-> First(job[c].todo).slot, term |-> job[c].term]
    IN
    /\ Asking(c, "commit") /\ MayFail(c, v)
    /\ lateCommits' = Waiting(lateCommits, m)
    /\ job' = [job EXCEPT ![c] = Notified(@, v)]
    /\ UNCHANGED <<role, term, electing, logging, applying, late, lateVotes, history>>

LateCommit(m) ==
    /\ m \in lateCommits /\ lateCommits' = lateCommits \ {m}
    /\ Commit(m.to, m.slot, m.term)
    /\ UNCHANGED <<role, term, electing, logging, job, late, lateVotes, used, proposals, chosen>>

Next ==
    \/ \E c \in Callers :
          \/ \E r \in Candidates : RequestLeadership(c, r) \/ StartPropose(c, r)
          \/ AskVote(c) \/ NoVote(c) \/ Win(c) \/ Lose(c)
          \/ Sync(c) \/ SyncDone(c)
          \/ Redrive(c) \/ TakeSlot(c)
          \/ AskAccept(c) \/ NoAccept(c) \/ Chosen(c) \/ NotChosen(c)
          \/ Notify(c) \/ NotifyLost(c)
    \/ \E r \in Replicas : LeaseEnds(r) \/ VoteEnds(r)
    \/ \E m \in lateVotes : LateVote(m)
    \/ \E m \in late : LateAccept(m)
    \/ \E m \in lateCommits : LateCommit(m)

Spec == Init /\ [][Next]_vars

-----------------------------------------------------------------------------
(* The group is a replicated log: a slot gets one value, for ever, and every
   replica applies the chosen values in order. *)
Promise == INSTANCE ReplicatedLog WITH chosen <- chosen, applied <- applied,
    Replicas <- Replicas, Slots <- Slots, Values <- Values
Logged == <<chosen, applied>>

(* As long as no step breaks one of the five conditions. *)
IsReplicatedLog == Promise!LogInit /\ [][kept' = Conditions => Promise!LogNext]_Logged

(* No two values occupy one (term, slot): "no two values can occupy one (term, slot)"
   (_redrive_uncommitted).  It does not hold: two elections may use one term. *)
OneValuePerTermSlot ==
    \A q, r \in Replicas, s \in Slots :
        log[q][s].term = log[r][s].term => log[q][s] = log[r][s]

(* It holds, and the comparison of terms in the sync means something, as long as
   elections have terms of their own, terms stand while votes are counted and propose
   prepares, and nobody proposes before the election has returned; whatever calls
   are lost or late, and whoever does not answer a sync. *)
UniqueConditions == {"own terms", "term stands", "synced first"}
TermSlotsUnique == UniqueConditions \subseteq kept => OneValuePerTermSlot

(* A leader whose election has returned holds every chosen value: nothing that
   propose reported as SUCCESS is missing from the log it extends. *)
LeaderHasChosen ==
    \A r \in Replicas :
        HasLease(r) /\ (\A c \in Callers : job[c].at = r => job[c].calls # "election") =>
            \A s \in Slots : chosen[s] # {} => log[r][s].value \in chosen[s]

(* It does as long as, besides, those that voted for a leader answer its sync. *)
CompleteConditions == UniqueConditions \cup {"voters answer"}
LeaderComplete == CompleteConditions \subseteq kept => LeaderHasChosen
=============================================================================
