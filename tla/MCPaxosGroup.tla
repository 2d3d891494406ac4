---------------------------- MODULE MCPaxosGroup ----------------------------
(***************************************************************************)
(* PaxosGroup for TLC.  The callers are interchangeable.  A condition that *)
(* is broken stays broken, so TLC looks at the states in which one of      *)
(* UniqueConditions is, but not beyond them: each property of the runs is  *)
(* true there for good.  A late request that would change nothing, now or  *)
(* later, is one that never comes.                                         *)
(***************************************************************************)
EXTENDS PaxosGroup, TLC

CallerSymmetry == Permutations(Callers)

StillToCheck == UniqueConditions \subseteq kept

Matters(m) == log[m.to][m.slot] # [term |-> m.term, value |-> m.value]
StillLate ==
    <<{m \in late : m.term >= term[m.to] /\ Matters(m)},
      {m \in lateVotes : m.term >= term[m.to]},
      {m \in lateCommits : m.slot \notin committed[m.to] \/ log[m.to][m.slot].term < m.term}>>
Essentials == <<role, term, electing, logging, applying, job, StillLate, history>>

-----------------------------------------------------------------------------
(* No condition can be left out.  Without "own terms" OneValuePerTermSlot fails; each
   of these fails although all other conditions hold. *)
But(condition) == Conditions \ {condition} \subseteq kept

(* A candidate whose term is raised by another while it counts goes on with the old
   one, or proposes under the new one. *)
UniqueWithRaisedTerms == But("term stands") => OneValuePerTermSlot

(* A propose during the sync takes a slot that the sync is about to fill. *)
UniqueWithEarlyProposals == But("synced first") => OneValuePerTermSlot

(* A leader that does not hear from a voter misses what only that voter has. *)
CompleteWithoutAnswers == But("voters answer") => LeaderHasChosen

(* A commit notification makes a replica apply an older value it holds at the slot. *)
ReplicatesWithStrayCommits ==
    [][Conditions \ {"commits follow"} \subseteq kept' => Promise!LogNext]_Logged
=============================================================================
