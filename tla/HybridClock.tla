----------------------------- MODULE HybridClock -----------------------------
(***************************************************************************)
(* HybridLogicalClock (time/hybrid_clock.py) on several nodes: the system  *)
(* clock corrected by an NTP offset, the uncertainty that grows with the   *)
(* time since the last sync, and the logical counter moved by now() and by *)
(* update() with the timestamps of received accept requests.               *)
(*                                                                         *)
(* True time advances in ticks of Tick units.  In one tick a system clock  *)
(* gains or loses at most Drift units; the code assumes Assumed units for  *)
(* every Tick units on that same clock ("1ms drift per second").  A system *)
(* clock may also be set, by hand or by the host's own time service.       *)
(***************************************************************************)
EXTENDS Integers, FiniteSetsExt

CONSTANTS
    Nodes,
    Tick, Drift, Assumed,
    Floor,       \* the least and the initial ntp_uncertainty_ns
    MaxDrift,    \* max_drift_ns
    Delays,      \* round-trip times of NTP requests
    Jumps,       \* by how much a system clock may be set
    Never,       \* last_ntp_sync before the first sync: the epoch
    MaxTime, MaxCalls, MaxSyncs, MaxJumps,   \* bounds on true time, calls, syncs, settings
    None

(* A clock that is off by d in a tick is off by less than is assumed for it. *)
ASSUME RateAssumption ==
    /\ Tick \in Nat \ {0} /\ Drift \in Nat /\ Assumed \in Nat
    /\ \A d \in -Drift .. Drift :
          d * Tick <= Assumed * (Tick + d) /\ -d * Tick <= Assumed * (Tick + d)
ASSUME ClockAssumption ==
    /\ Floor \in Nat /\ MaxDrift \in Nat /\ Delays \subseteq Nat
    /\ Jumps \subseteq Int /\ Never \in Int

VARIABLES
    now,            \* true time
    raw,            \* time.time_ns() of each node
    offset,         \* ntp_offset_ns
    ntpUncertainty, \* ntp_uncertainty_ns
    lastSync,       \* last_ntp_sync
    lastPhysical,   \* last_physical
    logical,        \* the logical counter
    steady,         \* the node has synced, and its clock was not set since
    calm,           \* the corrected clock was never behind lastPhysical
    result,         \* the timestamp returned last
    heard,          \* the message timestamp passed to that call, if any
    top,            \* the greatest timestamp returned so far
    sent,           \* timestamps sent in accept requests
    calls, syncs, jumps

syncVars == <<offset, ntpUncertainty, lastSync>>
stampVars == <<lastPhysical, logical, result, heard, top, sent, calls>>
vars == <<now, raw, syncVars, stampVars, steady, calm, syncs, jumps>>

NoStamp == [physical |-> Never - 1, logical |-> 0]
TsLess(a, b) ==
    a.physical < b.physical \/ (a.physical = b.physical /\ a.logical < b.logical)
Later(a, b) == IF TsLess(a, b) THEN b ELSE a
Larger(a, b) == IF a < b THEN b ELSE a

Init ==
    /\ now = 0
    /\ raw \in [Nodes -> {0} \cup Jumps]
    /\ offset = [n \in Nodes |-> 0]
    /\ ntpUncertainty = [n \in Nodes |-> Floor]
    /\ lastSync = [n \in Nodes |-> Never]
    /\ lastPhysical = [n \in Nodes |-> Never]
    /\ logical = [n \in Nodes |-> 0]
    /\ steady = [n \in Nodes |-> FALSE]
    /\ calm = [n \in Nodes |-> TRUE]
    /\ result = [n \in Nodes |-> NoStamp]
    /\ heard = [n \in Nodes |-> None]
    /\ top = [n \in Nodes |-> NoStamp]
    /\ sent = {}
    /\ calls = [n \in Nodes |-> 0]
    /\ syncs = 0
    /\ jumps = 0

Physical(n) == raw[n] + offset[n]

(* What is assumed to have built up since the last sync, before the cap. *)
Elapsed(n) == raw[n] - lastSync[n]
AssumedDrift(n) == (Elapsed(n) * Assumed) \div Tick
Uncertainty(n) ==
    ntpUncertainty[n] + (IF AssumedDrift(n) < MaxDrift THEN AssumedDrift(n) ELSE MaxDrift)

-----------------------------------------------------------------------------
(* Time and synchronization *)

Advance ==
    /\ now < MaxTime
    /\ now' = now + Tick
    /\ \E d \in [Nodes -> -Drift .. Drift] : raw' = [n \in Nodes |-> raw[n] + Tick + d[n]]
    /\ UNCHANGED <<syncVars, stampVars, steady, calm, syncs, jumps>>

SetClock(n) ==
    /\ jumps < MaxJumps
    /\ \E j \in Jumps : raw' = [raw EXCEPT ![n] = @ + j]
    /\ jumps' = jumps + 1
    /\ steady' = [steady EXCEPT ![n] = FALSE]
    /\ UNCHANGED <<now, syncVars, stampVars, calm, syncs>>

(* The uncertainty of the answer is not taken from its round trip. *)
FaultySync(n) ==
    /\ syncs < MaxSyncs /\ syncs' = syncs + 1
    /\ \E rtt \in Delays : \E err \in -(rtt \div 2) .. rtt \div 2 :
           /\ offset' = [offset EXCEPT ![n] = now + err - raw[n]]
           /\ ntpUncertainty' = [ntpUncertainty EXCEPT ![n] = Floor]
           /\ lastSync' = [lastSync EXCEPT ![n] = raw[n]]
           /\ steady' = [steady EXCEPT ![n] = TRUE]
           /\ UNCHANGED <<now, raw, stampVars, calm, jumps>>

(* A server answers: its offset is wrong by at most half the round trip.  A
   sync that fails changes nothing. *)
Sync(n) ==
    /\ syncs < MaxSyncs /\ syncs' = syncs + 1
    /\ \E rtt \in Delays : \E err \in -(rtt \div 2) .. rtt \div 2 :
           /\ offset' = [offset EXCEPT ![n] = now + err - raw[n]]
           /\ ntpUncertainty' = [ntpUncertainty EXCEPT ![n] = Larger(rtt \div 2, Floor)]
           /\ lastSync' = [lastSync EXCEPT ![n] = raw[n]]
           /\ steady' = [steady EXCEPT ![n] = TRUE]
           /\ UNCHANGED <<now, raw, stampVars, calm, jumps>>

-----------------------------------------------------------------------------
(* Timestamps *)

(* A call on node n returns (p, l), leaving lastPhysical and logical. *)
Return(n, p, l, last, message) ==
    LET ts == [physical |-> p, logical |-> l] IN
    /\ FoldSet(LAMBDA m, sum : calls[m] + sum, 0, Nodes) < MaxCalls
    /\ calls' = [calls EXCEPT ![n] = @ + 1]
    /\ lastPhysical' = [lastPhysical EXCEPT ![n] = last]
    /\ logical' = [logical EXCEPT ![n] = l]
    /\ result' = [result EXCEPT ![n] = ts]
    /\ heard' = [heard EXCEPT ![n] = message]
    /\ top' = [top EXCEPT ![n] = Later(@, ts)]
    /\ UNCHANGED <<now, raw, syncVars, steady, syncs, jumps>>

(* The counter is kept when the physical part has not moved. *)
FaultyNowLogical(n) == IF Physical(n) < lastPhysical[n] THEN logical[n] + 1 ELSE 0

NowLogical(n) == IF Physical(n) <= lastPhysical[n] THEN logical[n] + 1 ELSE 0

(* now(): the physical part is the corrected clock, also when it is behind
   last_physical; a proposer sends the timestamp in its accept requests. *)
Now(n) ==
    /\ Return(n, Physical(n), NowLogical(n), Larger(Physical(n), lastPhysical[n]), None)
    /\ sent' = sent \cup {result'[n]}
    /\ calm' = [calm EXCEPT ![n] = @ /\ Physical(n) >= lastPhysical[n]]

(* update(msg): the physical part is the larger of the corrected clock and
   the message, last_physical is set to it even when it is behind. *)
Update(n) ==
    \E m \in sent :
        LET p == Larger(Physical(n), m.physical)
            l == CASE p = lastPhysical[n] /\ p = m.physical -> Larger(logical[n], m.logical) + 1
                   [] p = lastPhysical[n] /\ p # m.physical -> logical[n] + 1
                   [] p # lastPhysical[n] /\ p = m.physical -> m.logical + 1
                   [] OTHER -> 0
        IN  /\ Return(n, p, l, p, m)
            /\ calm' = [calm EXCEPT ![n] = @ /\ p >= lastPhysical[n]]
            /\ UNCHANGED sent

Next ==
    \/ Advance
    \/ \E n \in Nodes : SetClock(n) \/ Sync(n) \/ Now(n) \/ Update(n)

Spec == Init /\ [][Next]_vars

-----------------------------------------------------------------------------
(* Properties *)

(* The interval of a timestamp contains true time (hybrid_clock.py header,
   "uncertainty intervals") as long as the last sync is recent enough for the
   assumed drift to stay under max_drift_ns and nobody has set the system
   clock since.  Beyond the cap the interval stops growing. *)
IntervalContainsTime ==
    \A n \in Nodes :
        steady[n] /\ AssumedDrift(n) <= MaxDrift =>
            now \in Physical(n) - Uncertainty(n) .. Physical(n) + Uncertainty(n)

(* Every timestamp returned by update exceeds the message it was given
   ("maintains causality"), and every timestamp exceeds all that the node
   returned before, unless the corrected clock has been behind last_physical:
   after a sync or a setting that moved it back, or after a message from a
   node that is ahead. *)
CausalWhileCalm ==
    [][\A n \in Nodes : calls'[n] # calls[n] =>
          /\ heard'[n] # None => TsLess(heard'[n], result'[n])
          /\ calm'[n] => TsLess(top[n], result'[n])]_vars
=============================================================================
