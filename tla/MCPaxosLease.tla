---------------------------- MODULE MCPaxosLease ----------------------------
(* PaxosLease for TLC: numbered replicas, asked in the order of their
   numbers. *)
EXTENDS PaxosLease

InOrder == {p \in Replicas \X Replicas : p[1] < p[2]}
=============================================================================
