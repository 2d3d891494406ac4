-------------------------- MODULE HybridClockProofs --------------------------
(***************************************************************************)
(* Proofs about HybridClock, for any nodes, drift rates, round trips and   *)
(* settings of the system clocks: the interval of a recently synced clock  *)
(* contains true time, and timestamps respect messages, and grow as long   *)
(* as the corrected clock is not behind last_physical.                     *)
(***************************************************************************)
EXTENDS HybridClock, TLAPS

Stamps == [physical : Int, logical : Int]

(* Types, and None is no timestamp. *)
ClockTypeOK ==
    /\ now \in Int
    /\ raw \in [Nodes -> Int]
    /\ offset \in [Nodes -> Int]
    /\ ntpUncertainty \in [Nodes -> Int]
    /\ lastSync \in [Nodes -> Int]
    /\ lastPhysical \in [Nodes -> Int]
    /\ logical \in [Nodes -> Int]
    /\ steady \in [Nodes -> BOOLEAN]
    /\ calm \in [Nodes -> BOOLEAN]
    /\ DOMAIN result = Nodes /\ DOMAIN heard = Nodes /\ DOMAIN calls = Nodes
    /\ top \in [Nodes -> Stamps]
    /\ sent \subseteq Stamps

(* Scaled by Tick, the error is the one of the sync and what was assumed to
   build up since: unlike the rounded uncertainty, this is inductive. *)
ErrorBounded ==
    \A n \in Nodes : steady[n] =>
        LET bound == ntpUncertainty[n] * Tick + Elapsed(n) * Assumed IN
        /\ (Physical(n) - now) * Tick <= bound
        /\ (now - Physical(n)) * Tick <= bound

(* last_physical and the counter are not behind what was returned. *)
CounterLeads ==
    \A n \in Nodes : calm[n] =>
        ~TsLess([physical |-> lastPhysical[n], logical |-> logical[n]], top[n])

ClockInv == ClockTypeOK /\ ErrorBounded /\ CounterLeads

(* A bound on a multiple bounds the quotient. *)
LEMMA QuotientBound ==
  ASSUME NEW d \in Nat \ {0}, NEW x \in Int, NEW y \in Int, x * d <= y
  PROVE  x <= y \div d
  BY SMTT(30)

LEMMA ClockInitial == Init => ClockInv
<1> SUFFICES ASSUME Init PROVE ClockInv
  OBVIOUS
<1>1. NoStamp \in Stamps
  BY ClockAssumption DEF NoStamp, Stamps
<1>2. ClockTypeOK
  <2>1. {0} \cup Jumps \subseteq Int /\ Never \in Int /\ Floor \in Int
    BY ClockAssumption
  <2>2. raw \in [Nodes -> Int]
    BY <2>1 DEF Init
  <2>3. top \in [Nodes -> Stamps]
    BY <1>1 DEF Init
  <2> QED
    BY <2>1, <2>2, <2>3 DEF Init, ClockTypeOK
<1>3. ErrorBounded
  BY DEF Init, ErrorBounded
<1>4. CounterLeads
  BY ClockAssumption DEF Init, CounterLeads, TsLess, NoStamp
<1> QED
  BY <1>2, <1>3, <1>4 DEF ClockInv

(* One tick of true time: each clock is off by its drift, and more than that
   is assumed to have built up. *)
LEMMA AdvanceKeeps == ClockInv /\ Advance => ClockInv'
<1> SUFFICES ASSUME ClockInv, Advance PROVE ClockInv'
  OBVIOUS
<1> USE DEF ClockInv
<1>0. PICK d \in [Nodes -> -Drift .. Drift] : raw' = [n \in Nodes |-> raw[n] + Tick + d[n]]
  BY DEF Advance
<1>1. now' = now + Tick /\ UNCHANGED <<syncVars, stampVars, steady, calm>>
  BY DEF Advance
<1>2. ClockTypeOK'
  BY <1>0, <1>1, RateAssumption DEF ClockTypeOK, syncVars, stampVars
<1>3. ErrorBounded'
  <2> SUFFICES ASSUME NEW n \in Nodes, steady[n]
               PROVE  LET bound == ntpUncertainty[n] * Tick + Elapsed(n)' * Assumed IN
                      /\ (Physical(n)' - now') * Tick <= bound
                      /\ (now' - Physical(n)') * Tick <= bound
    BY <1>1 DEF ErrorBounded, syncVars, Elapsed, Physical
  <2> DEFINE e == Physical(n) - now
             x == Elapsed(n)
             u == ntpUncertainty[n]
             s == d[n]
  <2>1. /\ e \in Int /\ x \in Int /\ u \in Int /\ s \in Int
        /\ Tick \in Int /\ Assumed \in Int
    BY <1>0, RateAssumption DEF ClockTypeOK, Physical, Elapsed
  <2>2. Physical(n)' - now' = e + s /\ now' - Physical(n)' = -(e + s)
    BY <1>0, <1>1, RateAssumption, <2>1 DEF ClockTypeOK, Physical, syncVars
  <2>3. Elapsed(n)' = x + (Tick + s)
    BY <1>0, <1>1, RateAssumption, <2>1 DEF ClockTypeOK, Elapsed, syncVars
  <2>4. e * Tick <= u * Tick + x * Assumed /\ (-e) * Tick <= u * Tick + x * Assumed
    <3>1. now - Physical(n) = -e
      BY DEF ClockTypeOK, Physical
    <3> QED
      BY <3>1 DEF ErrorBounded
  <2>5. s * Tick <= Assumed * (Tick + s) /\ -s * Tick <= Assumed * (Tick + s)
    BY <1>0, RateAssumption
  <2>6. /\ (e + s) * Tick <= u * Tick + (x + (Tick + s)) * Assumed
        /\ (-(e + s)) * Tick <= u * Tick + (x + (Tick + s)) * Assumed
    <3> HIDE DEF e, x, u, s
    <3>1. (e + s) * Tick = e * Tick + s * Tick /\ (-(e + s)) * Tick = (-e) * Tick + (-s) * Tick
      BY <2>1
    <3>2. (x + (Tick + s)) * Assumed = x * Assumed + Assumed * (Tick + s)
      BY <2>1
    <3> QED
      BY <2>1, <2>4, <2>5, <3>1, <3>2
  <2> QED
    BY <2>2, <2>3, <2>6
<1>4. CounterLeads'
  BY <1>1 DEF CounterLeads, stampVars, TsLess
<1> QED
  BY <1>2, <1>3, <1>4

LEMMA SetClockKeeps ==
  ASSUME NEW n \in Nodes, ClockInv, SetClock(n) PROVE ClockInv'
<1> USE DEF ClockInv
<1>1. PICK j \in Jumps : raw' = [raw EXCEPT ![n] = @ + j]
  BY DEF SetClock
<1>2. UNCHANGED <<now, syncVars, stampVars, calm>> /\ steady' = [steady EXCEPT ![n] = FALSE]
  BY DEF SetClock
<1>3. ClockTypeOK'
  BY <1>1, <1>2, ClockAssumption DEF ClockTypeOK, syncVars, stampVars
<1>4. ErrorBounded'
  BY <1>1, <1>2 DEF ErrorBounded, ClockTypeOK, Physical, Elapsed, syncVars
<1>5. CounterLeads'
  BY <1>2 DEF CounterLeads, stampVars, TsLess
<1> QED
  BY <1>3, <1>4, <1>5

(* A sync starts again with an error of at most half the round trip. *)
LEMMA SyncKeeps ==
  ASSUME NEW n \in Nodes, ClockInv, Sync(n) PROVE ClockInv'
<1> USE DEF ClockInv
<1>0. PICK rtt \in Delays : \E err \in -(rtt \div 2) .. rtt \div 2 :
        /\ offset' = [offset EXCEPT ![n] = now + err - raw[n]]
        /\ ntpUncertainty' = [ntpUncertainty EXCEPT ![n] = Larger(rtt \div 2, Floor)]
        /\ lastSync' = [lastSync EXCEPT ![n] = raw[n]]
        /\ steady' = [steady EXCEPT ![n] = TRUE]
        /\ UNCHANGED <<now, raw, stampVars, calm, jumps>>
  BY DEF Sync
<1>1. PICK err \in -(rtt \div 2) .. rtt \div 2 :
        /\ offset' = [offset EXCEPT ![n] = now + err - raw[n]]
        /\ ntpUncertainty' = [ntpUncertainty EXCEPT ![n] = Larger(rtt \div 2, Floor)]
        /\ lastSync' = [lastSync EXCEPT ![n] = raw[n]]
        /\ steady' = [steady EXCEPT ![n] = TRUE]
        /\ UNCHANGED <<now, raw, stampVars, calm, jumps>>
  BY <1>0
<1>2. rtt \div 2 \in Int /\ Floor \in Int /\ err \in Int
  BY ClockAssumption
<1>3. ClockTypeOK'
  BY <1>1, <1>2 DEF ClockTypeOK, stampVars, Larger
<1>4. ErrorBounded'
  <2> SUFFICES ASSUME NEW m \in Nodes, steady'[m]
               PROVE  LET bound == ntpUncertainty'[m] * Tick + Elapsed(m)' * Assumed IN
                      /\ (Physical(m)' - now') * Tick <= bound
                      /\ (now' - Physical(m)') * Tick <= bound
    BY DEF ErrorBounded
  <2>1. CASE m # n
    BY <1>1, <2>1 DEF ErrorBounded, ClockTypeOK, Physical, Elapsed
  <2>2. CASE m = n
    <3> DEFINE u == Larger(rtt \div 2, Floor)
    <3>1. err <= u /\ -err <= u /\ u \in Int
      BY <1>2 DEF Larger
    <3>2. Physical(n)' - now' = err /\ now' - Physical(n)' = -err
      BY <1>1, <1>2 DEF ClockTypeOK, Physical
    <3>3. ntpUncertainty'[n] = u /\ Elapsed(n)' = 0
      BY <1>1 DEF ClockTypeOK, Elapsed
    <3>4. err * Tick <= u * Tick /\ (-err) * Tick <= u * Tick
      <4> HIDE DEF u
      <4> QED BY <3>1, <1>2, RateAssumption, SMTT(30)
    <3>5. 0 * Assumed = 0 /\ u * Tick \in Int
      BY <3>1, RateAssumption
    <3> QED
      BY <2>2, <3>2, <3>3, <3>4, <3>5
  <2> QED
    BY <2>1, <2>2
<1>5. CounterLeads'
  BY <1>1 DEF CounterLeads, stampVars, TsLess
<1> QED
  BY <1>3, <1>4, <1>5

(* What a call leaves: a timestamp that exceeds the last one while calm. *)
LEMMA ReturnKeeps ==
  ASSUME NEW n \in Nodes, NEW p \in Int, NEW l \in Int, NEW last \in Int, NEW message,
         ClockInv, Return(n, p, l, last, message),
         sent' \subseteq Stamps,
         calm' \in [Nodes -> BOOLEAN],
         \A m \in Nodes : calm'[m] => calm[m],
         calm'[n] => last = p /\ (p > lastPhysical[n]
                                  \/ (p = lastPhysical[n] /\ l > logical[n]))
  PROVE  /\ ClockInv'
         /\ calm'[n] => TsLess(top[n], result'[n])
         /\ result'[n] = [physical |-> p, logical |-> l]
         /\ heard'[n] = message
         /\ \A m \in Nodes \ {n} : calls'[m] = calls[m]
<1> USE DEF ClockInv
<1> DEFINE ts == [physical |-> p, logical |-> l]
<1>1. /\ ts \in Stamps /\ ts.physical = p /\ ts.logical = l
      /\ top[n] \in Stamps /\ top[n].physical \in Int /\ top[n].logical \in Int
      /\ lastPhysical[n] \in Int /\ logical[n] \in Int
  BY DEF Stamps, ClockTypeOK
<1>2. /\ result' = [result EXCEPT ![n] = ts] /\ heard' = [heard EXCEPT ![n] = message]
      /\ calls' = [calls EXCEPT ![n] = @ + 1] /\ top' = [top EXCEPT ![n] = Later(@, ts)]
      /\ lastPhysical' = [lastPhysical EXCEPT ![n] = last]
      /\ logical' = [logical EXCEPT ![n] = l]
      /\ UNCHANGED <<now, raw, syncVars, steady>>
  BY DEF Return
<1> HIDE DEF ts
<1>3. Later(top[n], ts) \in Stamps
  BY <1>1 DEF Later
<1>4. ClockTypeOK'
  BY <1>2, <1>3 DEF ClockTypeOK, syncVars
<1>5. ErrorBounded'
  BY <1>2 DEF ErrorBounded, Physical, Elapsed, syncVars
<1>6. result'[n] = ts /\ heard'[n] = message /\ \A m \in Nodes \ {n} : calls'[m] = calls[m]
  BY <1>2 DEF ClockTypeOK
<1>7. calm'[n] => TsLess(top[n], ts)
  <2> SUFFICES ASSUME calm'[n] PROVE TsLess(top[n], ts)
    OBVIOUS
  <2>1. ~TsLess([physical |-> lastPhysical[n], logical |-> logical[n]], top[n])
    BY DEF CounterLeads
  <2> QED
    BY <1>1, <2>1 DEF TsLess
<1>8. CounterLeads'
  <2> SUFFICES ASSUME NEW m \in Nodes, calm'[m]
               PROVE  ~TsLess([physical |-> lastPhysical'[m], logical |-> logical'[m]], top'[m])
    BY DEF CounterLeads
  <2>1. CASE m # n
    BY <1>2, <2>1 DEF CounterLeads, ClockTypeOK
  <2>2. CASE m = n
    <3>1. top'[n] = ts
      BY <1>2, <1>7, <2>2 DEF Later, ClockTypeOK
    <3>2. lastPhysical'[n] = p /\ logical'[n] = l
      BY <1>2, <2>2 DEF ClockTypeOK
    <3> QED
      BY <1>1, <2>2, <3>1, <3>2 DEF TsLess
  <2> QED
    BY <2>1, <2>2
<1> QED
  BY <1>4, <1>5, <1>6, <1>7, <1>8 DEF ts

LEMMA NowKeeps ==
  ASSUME NEW n \in Nodes, ClockInv, Now(n)
  PROVE  /\ ClockInv'
         /\ calm'[n] => TsLess(top[n], result'[n])
         /\ heard'[n] = None
         /\ \A m \in Nodes \ {n} : calls'[m] = calls[m]
<1> DEFINE p == Physical(n)
           l == NowLogical(n)
           last == Larger(p, lastPhysical[n])
<1>1. p \in Int /\ l \in Int /\ last \in Int /\ lastPhysical[n] \in Int /\ logical[n] \in Int
  BY DEF ClockInv, ClockTypeOK, Physical, NowLogical, Larger
<1>2. Return(n, p, l, last, None)
  BY DEF Now
<1>3. calm' = [calm EXCEPT ![n] = @ /\ p >= lastPhysical[n]]
  BY DEF Now
<1>4. calm' \in [Nodes -> BOOLEAN] /\ \A m \in Nodes : calm'[m] => calm[m]
  BY <1>3 DEF ClockInv, ClockTypeOK
<1>5. calm'[n] => last = p /\ (p > lastPhysical[n] \/ (p = lastPhysical[n] /\ l > logical[n]))
  <2>1. calm'[n] => p >= lastPhysical[n]
    BY <1>3 DEF ClockInv, ClockTypeOK
  <2>2. p >= lastPhysical[n] => last = p
    <3> HIDE DEF p
    <3> QED BY <1>1 DEF Larger
  <2>3. p = lastPhysical[n] => l = logical[n] + 1
    BY <1>1 DEF NowLogical
  <2> HIDE DEF p, l, last
  <2> QED
    BY <1>1, <2>1, <2>2, <2>3
<1>6. sent' \subseteq Stamps
  <2>1. result'[n] = [physical |-> p, logical |-> l]
    BY <1>2 DEF Return, ClockInv, ClockTypeOK
  <2>2. result'[n] \in Stamps
    BY <1>1, <2>1 DEF Stamps
  <2> QED
    BY <2>2 DEF Now, ClockInv, ClockTypeOK
<1> HIDE DEF p, l, last
<1>7. /\ ClockInv'
      /\ calm'[n] => TsLess(top[n], result'[n])
      /\ result'[n] = [physical |-> p, logical |-> l]
      /\ heard'[n] = None
      /\ \A m \in Nodes \ {n} : calls'[m] = calls[m]
  BY <1>1, <1>2, <1>4, <1>5, <1>6, ReturnKeeps
<1> QED
  BY <1>7

LEMMA UpdateKeeps ==
  ASSUME NEW n \in Nodes, ClockInv, Update(n)
  PROVE  /\ ClockInv'
         /\ calm'[n] => TsLess(top[n], result'[n])
         /\ TsLess(heard'[n], result'[n])
         /\ \A m \in Nodes \ {n} : calls'[m] = calls[m]
<1>0. PICK msg \in sent :
        LET p == Larger(Physical(n), msg.physical)
            l == CASE p = lastPhysical[n] /\ p = msg.physical -> Larger(logical[n], msg.logical) + 1
                   [] p = lastPhysical[n] /\ p # msg.physical -> logical[n] + 1
                   [] p # lastPhysical[n] /\ p = msg.physical -> msg.logical + 1
                   [] OTHER -> 0
        IN  /\ Return(n, p, l, p, msg)
            /\ calm' = [calm EXCEPT ![n] = @ /\ p >= lastPhysical[n]]
            /\ UNCHANGED sent
  BY DEF Update
<1> DEFINE p == Larger(Physical(n), msg.physical)
           l == CASE p = lastPhysical[n] /\ p = msg.physical -> Larger(logical[n], msg.logical) + 1
                  [] p = lastPhysical[n] /\ p # msg.physical -> logical[n] + 1
                  [] p # lastPhysical[n] /\ p = msg.physical -> msg.logical + 1
                  [] OTHER -> 0
<1>1. /\ msg \in Stamps /\ msg.physical \in Int /\ msg.logical \in Int /\ Physical(n) \in Int
      /\ lastPhysical[n] \in Int /\ logical[n] \in Int
  BY DEF ClockInv, ClockTypeOK, Physical, Stamps
<1>2. p \in Int /\ p >= msg.physical
  BY <1>1 DEF Larger
<1>3. /\ l \in Int
      /\ p = msg.physical => l > msg.logical
      /\ p = lastPhysical[n] => l > logical[n]
  <2> HIDE DEF p
  <2> QED BY <1>1, <1>2 DEF Larger
<1>4. Return(n, p, l, p, msg) /\ calm' = [calm EXCEPT ![n] = @ /\ p >= lastPhysical[n]]
      /\ UNCHANGED sent
  BY <1>0
<1> HIDE DEF p, l
<1>5. calm' \in [Nodes -> BOOLEAN] /\ \A m \in Nodes : calm'[m] => calm[m]
  BY <1>4 DEF ClockInv, ClockTypeOK
<1>6. calm'[n] => p = p /\ (p > lastPhysical[n] \/ (p = lastPhysical[n] /\ l > logical[n]))
  <2>1. calm'[n] => p >= lastPhysical[n]
    BY <1>4 DEF ClockInv, ClockTypeOK
  <2> QED
    BY <1>1, <1>2, <1>3, <2>1
<1>7. sent' \subseteq Stamps
  BY <1>4 DEF ClockInv, ClockTypeOK
<1>8. /\ ClockInv'
      /\ calm'[n] => TsLess(top[n], result'[n])
      /\ result'[n] = [physical |-> p, logical |-> l]
      /\ heard'[n] = msg
      /\ \A m \in Nodes \ {n} : calls'[m] = calls[m]
  BY <1>2, <1>3, <1>4, <1>5, <1>6, <1>7, ReturnKeeps
<1>9. TsLess(msg, [physical |-> p, logical |-> l])
  BY <1>1, <1>2, <1>3 DEF TsLess
<1> QED
  BY <1>8, <1>9

(* A step keeps the invariant and orders the timestamp of the call it is. *)
LEMMA StepCausal ==
  ClockInv /\ [Next]_vars =>
      /\ ClockInv'
      /\ \A n \in Nodes : calls'[n] # calls[n] =>
            /\ heard'[n] # None => TsLess(heard'[n], result'[n])
            /\ calm'[n] => TsLess(top[n], result'[n])
<1> SUFFICES ASSUME ClockInv, [Next]_vars
             PROVE  /\ ClockInv'
                    /\ \A n \in Nodes : calls'[n] # calls[n] =>
                          /\ heard'[n] # None => TsLess(heard'[n], result'[n])
                          /\ calm'[n] => TsLess(top[n], result'[n])
  OBVIOUS
<1>1. CASE Advance
  <2>1. ClockInv'
    BY <1>1, AdvanceKeeps
  <2>2. calls' = calls
    BY <1>1 DEF Advance, stampVars
  <2> QED
    BY <2>1, <2>2
<1>2. CASE \E n \in Nodes : SetClock(n)
  <2>1. ClockInv'
    BY <1>2, SetClockKeeps
  <2>2. calls' = calls
    BY <1>2 DEF SetClock, stampVars
  <2> QED
    BY <2>1, <2>2
<1>3. CASE \E n \in Nodes : Sync(n)
  <2>1. ClockInv'
    BY <1>3, SyncKeeps
  <2>2. calls' = calls
    BY <1>3 DEF Sync, stampVars
  <2> QED
    BY <2>1, <2>2
<1>4. CASE \E n \in Nodes : Now(n)
  BY <1>4, NowKeeps
<1>5. CASE \E n \in Nodes : Update(n)
  BY <1>5, UpdateKeeps
<1>6. CASE UNCHANGED vars
  BY <1>6 DEF vars, syncVars, stampVars, ClockInv, ClockTypeOK, ErrorBounded, CounterLeads,
     Physical, Elapsed, TsLess
<1> QED
  BY <1>1, <1>2, <1>3, <1>4, <1>5, <1>6 DEF Next

LEMMA ClockInvariant == Spec => []ClockInv
<1>1. ClockInv /\ [Next]_vars => ClockInv'
  BY StepCausal
<1> QED
  BY ClockInitial, <1>1, PTL DEF Spec

(* The uncertainty the clock reports covers the bound, up to the cap. *)
LEMMA BoundCovers == ClockInv => IntervalContainsTime
<1> SUFFICES ASSUME ClockInv, NEW n \in Nodes, steady[n], AssumedDrift(n) <= MaxDrift
             PROVE  now \in Physical(n) - Uncertainty(n) .. Physical(n) + Uncertainty(n)
  BY DEF IntervalContainsTime
<1> USE DEF ClockInv
<1> DEFINE e == Physical(n) - now
           u == ntpUncertainty[n]
           x == Elapsed(n) * Assumed
<1>1. /\ e \in Int /\ u \in Int /\ x \in Int /\ Physical(n) \in Int /\ now \in Int
      /\ Tick \in Nat \ {0} /\ MaxDrift \in Int
  BY RateAssumption, ClockAssumption DEF ClockTypeOK, Physical, Elapsed
<1>2. e * Tick <= u * Tick + x /\ (-e) * Tick <= u * Tick + x
  <2>1. now - Physical(n) = -e
    BY <1>1
  <2> QED
    BY <2>1 DEF ErrorBounded
<1>3. (e - u) * Tick <= x /\ (-e - u) * Tick <= x
  <2> HIDE DEF e, u, x
  <2> QED BY <1>1, <1>2, SMTT(30)
<1>4. e - u <= x \div Tick /\ -e - u <= x \div Tick
  <2> HIDE DEF e, u, x
  <2> QED BY <1>1, <1>3, QuotientBound
<1>5. x \div Tick \in Int /\ AssumedDrift(n) = x \div Tick
  BY <1>1 DEF AssumedDrift
<1>6. Uncertainty(n) = u + x \div Tick
  BY <1>1, <1>5 DEF Uncertainty
<1> QED
  BY <1>1, <1>4, <1>5, <1>6

(* The interval of a recently synced clock that nobody has set contains true
   time, for any nodes, drift below the assumed one and round trips. *)
THEOREM IntervalHolds == Spec => []IntervalContainsTime
  BY ClockInvariant, BoundCovers, PTL

(* Timestamps exceed the messages they answer, and those before them while
   the corrected clock is not behind last_physical. *)
THEOREM CausalityHolds == Spec => CausalWhileCalm
<1>1. ClockInv /\ [Next]_vars =>
        [\A n \in Nodes : calls'[n] # calls[n] =>
            /\ heard'[n] # None => TsLess(heard'[n], result'[n])
            /\ calm'[n] => TsLess(top[n], result'[n])]_vars
  BY StepCausal
<1> QED
  BY ClockInvariant, <1>1, PTL DEF Spec, CausalWhileCalm
=============================================================================
