---------------------------- MODULE ReplicatedLog ----------------------------
(***************************************************************************)
(* What a Paxos group promises to its users: a slot gets one value for     *)
(* ever, and every replica feeds its state machine the values of the slots *)
(* in order, without gaps and without repetitions.                         *)
(***************************************************************************)
EXTENDS Naturals, Sequences

CONSTANTS Replicas, Slots, Values

VARIABLES chosen,   \* the values given to a slot so far: none or one
          applied   \* what each replica's state machine has been fed

logVars == <<chosen, applied>>

LogInit ==
    /\ chosen = [s \in Slots |-> {}]
    /\ applied = [r \in Replicas |-> <<>>]

(* propose returns SUCCESS, or a new leader completes what another began. *)
Choose(s, v) ==
    /\ chosen[s] = {}
    /\ chosen' = [chosen EXCEPT ![s] = {v}]
    /\ UNCHANGED applied

(* A replica catches up with some of the slots after those it has applied. *)
Apply(r) ==
    \E n \in Slots :
        /\ n > Len(applied[r])
        /\ \A i \in Len(applied[r]) + 1..n : chosen[i] # {}
        /\ applied' = [applied EXCEPT ![r] =
              @ \o [i \in 1..n - Len(@) |-> CHOOSE v \in chosen[Len(applied[r]) + i] : TRUE]]
        /\ UNCHANGED chosen

LogNext ==
    \/ \E s \in Slots, v \in Values : Choose(s, v)
    \/ \E r \in Replicas : Apply(r)

LogSpec == LogInit /\ [][LogNext]_logVars
=============================================================================
