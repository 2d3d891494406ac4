------------------------- MODULE ClusterClientProofs -------------------------
(***************************************************************************)
(* Proofs about ClusterClient, for every number of nodes, every set of     *)
(* threads and keys and every client program: the five properties that the *)
(* run checks.  Their inductive invariant Invariant says what a request    *)
(* may rely on while it is in the network or in a server: it has a name of *)
(* its own, it is what the call that waits for it asked for, and, in a     *)
(* transaction, it went to the node where the transaction lives.           *)
(***************************************************************************)
EXTENDS ClusterClient, TLAPS, FiniteSetTheorems

-----------------------------------------------------------------------------
(* The inductive invariant *)

Values == Threads \cup {"seed", None}
Row == [v : Values, w : Values]
Answers == Verdict \cup Values
Phases == {"calling", "waiting", "answered", "raised"}
Call == [phase : Phases, op : Op, attempt : Nat, node : Node, id : Id \cup {None},
         answer : Answers, asked : SUBSET Node, moved : BOOLEAN]
Handle == [node : Node, id : Id \cup {None}, told : Answers, ends : Nat]
Txn == [node : Node, state : {"active", "preparing", "committed", "aborted", "lost"},
        live : BOOLEAN, writes : SUBSET Keys, applied : Nat]

(* Functions from some of the members of S to T *)
Partial(S, T) == UNION {[D -> T] : D \in SUBSET S}

Steps == {"new", "writing", "checked", "preparing", "finalizing"}
Handler == [by : Threads, id : Id, node : Node, op : Op, step : Steps,
            txn : Id \cup {None}, todo : Partial(Keys, Row), before : Partial(Keys, Row),
            clean : BOOLEAN, result : {None, "ok", "refused", "error"}]

TypeOK ==
    /\ primary \in Node
    /\ program \in [Threads -> Seq(Op)]
    /\ call \in [Threads -> Call \cup {Idle}]
    /\ serial \in [Threads -> Nat]
    /\ handle \in [Threads -> Handle]
    /\ DOMAIN txn \in SUBSET Id /\ txn \in [DOMAIN txn -> Txn]
    /\ rows \in [Node -> [Keys -> Row]]
    /\ schemas \in SUBSET Node
    /\ running \in SUBSET Handler
    /\ faults \in Nat
    /\ recent \in [Threads -> Keys \cup {None}]

Sent(t) == call[t].phase \in {"waiting", "answered"}
Pinned(op) == ~FailsOver(op)

(* A number names one request, and once it is answered there is none. *)
RequestsNamed ==
    /\ \A h \in running : h.id[1] = h.by /\ 1 <= h.id[2] /\ h.id[2] <= serial[h.by]
    /\ \A g, h \in running : g.id = h.id => g = h
    /\ \A i \in DOMAIN txn : i[2] <= serial[i[1]]
    /\ \A h \in running : h.op.kind = "begin" => h.id \notin DOMAIN txn
    /\ \A t \in Threads : Sent(t) => call[t].id = <<t, serial[t]>>
    /\ \A t \in Threads : call[t].phase = "answered" => \A h \in running : h.id # call[t].id

(* The handle of a thread knows its transaction and where that is. *)
HandlesFit ==
    /\ \A t \in Threads : handle[t].id # None =>
          /\ handle[t].id \in DOMAIN txn /\ handle[t].id[1] = t
          /\ txn[handle[t].id].node = handle[t].node
    /\ \A t \in Threads : call[t].phase # "idle" /\ Pinned(call[t].op) =>
          handle[t].id # None /\ (Sent(t) => call[t].node = handle[t].node)
    /\ \A h \in running : Pinned(h.op) =>
          h.txn \in DOMAIN txn /\ h.txn[1] = h.by /\ h.txn[2] < h.id[2]
    /\ \A t \in Threads : call[t].phase = "answered" /\ call[t].op.kind = "begin" =>
          /\ call[t].id \in DOMAIN txn /\ txn[call[t].id].node = call[t].node
          /\ txn[call[t].id].applied = 0

(* The request a call waits for is the one the call describes. *)
Awaited ==
    \A t \in Threads : \A h \in running :
        call[t].phase = "waiting" /\ h.id = call[t].id =>
            h.op = call[t].op /\ h.node = call[t].node /\ h.txn = handle[t].id

StepsFit ==
    \A h \in running :
        /\ h.step = "writing" => h.op.kind \in {"update", "delete"}
        /\ h.step \in {"checked", "preparing", "finalizing"} => h.op.kind = "commit"

Served == RequestsNamed /\ HandlesFit /\ Awaited /\ StepsFit

(* A call that fails over has asked the nodes in turn, from the primary on. *)
AskedInTurn ==
    \A t \in Threads : call[t].phase # "idle" /\ FailsOver(call[t].op) /\ ~call[t].moved =>
        LET c == call[t] IN
        /\ c.attempt < N
        /\ c.phase = "calling" => c.asked = {(primary + i) % N : i \in 0 .. c.attempt - 1}
        /\ Sent(t) => c.asked = {(primary + i) % N : i \in 0 .. c.attempt}
        /\ c.phase = "raised" => c.asked = Node

(* The put a thread must see is on the primary, and its first attempt to
   read it goes there. *)
RecentIsThere ==
    \A t \in Threads : recent[t] # None =>
        /\ rows[primary][recent[t]].v = t
        /\ Sent(t) /\ FailsOver(call[t].op) /\ call[t].attempt = 0 => call[t].node = primary

Applied(h) == h.step = "finalizing" /\ h.result = "ok"

(* The requests to end the transaction of a thread's handle that have not
   applied it, and 0 for a caller that was told it is not applied. *)
Unapplied(t) ==
    {h.id[2] : h \in {g \in running : g.by = t /\ g.txn = handle[t].id
                                      /\ Ends(g.op) /\ ~Applied(g)}}
    \cup {n \in {serial[t] + 1} : call[t].phase = "calling" /\ Ends(call[t].op)}
    \cup {n \in {serial[t]} : call[t].phase = "answered" /\ Ends(call[t].op)
                              /\ ~(call[t].op.kind = "commit" /\ call[t].answer = "ok")}
    \cup {n \in {0} : handle[t].told \in {"refused", "aborted"}}

(* Every request to end a transaction applies it at most once. *)
EndsCount ==
    \A t \in Threads : handle[t].id # None =>
        txn[handle[t].id].applied + Cardinality(Unapplied(t)) <= handle[t].ends

(* Success is only told of a transaction that was applied. *)
SuccessIsApplied ==
    /\ \A h \in running : Applied(h) => txn[h.txn].applied >= 1
    /\ \A t \in Threads : call[t].phase = "answered" /\ call[t].op.kind = "commit"
          /\ call[t].answer = "ok" => txn[handle[t].id].applied >= 1
    /\ \A t \in Threads : handle[t].told = "ok" =>
          handle[t].id # None /\ txn[handle[t].id].applied >= 1
    /\ \A t \in Threads : handle[t].id = None => handle[t].told = None

(* What an undisturbed statement has written so far, and what it has not. *)
StatementsFit ==
    \A h \in running : h.step = "writing" /\ h.clean =>
        /\ \A k \in DOMAIN h.todo :
              /\ Matches(h.op, h.before[k]) /\ h.todo[k] = h.before[k]
              /\ rows[h.node][k] = h.before[k]
        /\ \A k \in Keys \ DOMAIN h.todo :
              LET old == h.before[k]
                  new == rows[h.node][k] IN
              IF ~Matches(h.op, old) THEN new = old
              ELSE IF h.op.kind = "delete" THEN new = Missing
              ELSE new.v = h.by /\ new.w = old.w

-----------------------------------------------------------------------------
(* Types *)

(* A partial function has its keys in S and its values in T. *)
LEMMA PartialParts ==
    ASSUME NEW S, NEW T, NEW f \in Partial(S, T)
    PROVE  DOMAIN f \subseteq S /\ \A k \in DOMAIN f : f[k] \in T
BY DEF Partial

(* A function from some of S to T is partial. *)
LEMMA PartialMade ==
    ASSUME NEW S, NEW T, NEW D \in SUBSET S, NEW f \in [D -> T]
    PROVE  f \in Partial(S, T)
BY DEF Partial

(* The function a request starts with is empty. *)
LEMMA EmptyIsPartial ==
    ASSUME NEW S, NEW T
    PROVE  <<>> \in Partial(S, T)
<1>1. <<>> \in [{} -> T]
  OBVIOUS
<1>2. {} \in SUBSET S
  OBVIOUS
<1> QED
  BY <1>1, <1>2, PartialMade

(* A call on a row has a key. *)
LEMMA OpKey ==
    ASSUME NEW op \in Op, op.kind \in {"put", "get", "insert", "tput"}
    PROVE  op.key \in Keys
BY DEF Op

(* A thread is idle or in a call. *)
LEMMA CallCases ==
    ASSUME TypeOK, NEW t \in Threads
    PROVE  /\ call[t] = Idle \/ call[t] \in Call
           /\ Idle.phase = "idle"
           /\ call[t] \in Call <=> call[t].phase # "idle"
           /\ call[t] = Idle <=> call[t].phase = "idle"
BY DEF TypeOK, Call, Phases, Idle

(* The initial state is well typed. *)
LEMMA InitTypeOK == Init => TypeOK
<1> SUFFICES ASSUME Init PROVE TypeOK
  OBVIOUS
<1>1. N \in Nat \ {0} /\ 0 \in Node
  BY ClusterAssumption DEF Node
<1>2. program \in [Threads -> Seq(Op)]
  BY ClusterAssumption DEF Init
<1>3. NoHandle \in Handle
  BY <1>1 DEF NoHandle, Handle, Answers, Values
<1>4. Seed \in Row
  BY DEF Seed, Row, Values
<1>5. DOMAIN txn = {} /\ txn \in [{} -> Txn]
  BY DEF Init
<1> QED
  BY <1>1, <1>2, <1>3, <1>4, <1>5 DEF Init, TypeOK

(* A call that is made starts without an answer. *)
LEMMA InvokeTypes ==
    ASSUME TypeOK, NEW t \in Threads, Invoke(t)
    PROVE  TypeOK'
<1>1. program[t] \in Seq(Op) /\ program[t] # <<>>
  BY DEF TypeOK, Invoke
<1>2. Head(program[t]) \in Op /\ Tail(program[t]) \in Seq(Op)
  BY <1>1
<1>3. 0 \in Node
  BY ClusterAssumption DEF Node
<1> DEFINE c == [phase |-> "calling", op |-> Head(program[t]), attempt |-> 0,
                 node |-> 0, id |-> None, answer |-> None, asked |-> {}, moved |-> FALSE]
<1>4. c \in Call
  BY <1>2, <1>3 DEF Call, Phases, Answers, Values
<1>5. call' = [call EXCEPT ![t] = c]
  BY DEF Invoke
<1> HIDE DEF c
<1>6. handle' \in [Threads -> Handle]
  <2>1. handle \in [Threads -> Handle] /\ handle[t] \in Handle
    BY DEF TypeOK
  <2>2. [handle[t] EXCEPT !.ends = @ + 1] \in Handle
    BY <2>1 DEF Handle
  <2>3. handle' = handle \/ handle' = [handle EXCEPT ![t] = [handle[t] EXCEPT !.ends = @ + 1]]
    BY <2>1 DEF Invoke
  <2> QED
    BY <2>1, <2>2, <2>3
<1>7. call' \in [Threads -> Call \cup {Idle}]
  BY <1>4, <1>5 DEF TypeOK
<1>8. program' \in [Threads -> Seq(Op)]
  BY <1>2 DEF Invoke, TypeOK
<1> QED
  BY <1>6, <1>7, <1>8 DEF Invoke, TypeOK

(* The nodes are counted modulo N. *)
LEMMA NodesWrap ==
    ASSUME NEW p \in Node, NEW a \in Nat
    PROVE  (p + a) % N \in Node
BY ClusterAssumption DEF Node

(* A request goes to a node. *)
LEMMA TargetIsNode ==
    ASSUME TypeOK, NEW t \in Threads, call[t].phase = "calling"
    PROVE  Target(t) \in Node
<1>1. call[t] \in Call /\ handle[t] \in Handle /\ primary \in Node
  BY CallCases DEF TypeOK
<1>2. call[t].attempt \in Nat /\ handle[t].node \in Node
  BY <1>1 DEF Call, Handle
<1> QED
  BY <1>1, <1>2, NodesWrap DEF Target

(* The request Send puts into the network, and the call that waits for it *)
Request(t) ==
    [by |-> t, id |-> <<t, serial[t] + 1>>, node |-> Target(t), op |-> call[t].op,
     step |-> "new", txn |-> handle[t].id, todo |-> <<>>, before |-> <<>>, clean |-> TRUE,
     result |-> None]
Waits(t) == [call[t] EXCEPT !.phase = "waiting", !.node = Target(t),
                 !.id = <<t, serial[t] + 1>>, !.asked = call[t].asked \cup {Target(t)}]

(* Send in terms of the request and the waiting call. *)
LEMMA SendParts ==
    ASSUME TypeOK, NEW t \in Threads, Send(t)
    PROVE  /\ call[t].phase = "calling" /\ call[t] \in Call
           /\ Target(t) \in Node /\ Request(t) \in Handler /\ Waits(t) \in Call
           /\ running' = running \cup {Request(t)}
           /\ call' = [call EXCEPT ![t] = Waits(t)]
           /\ serial' = [serial EXCEPT ![t] = serial[t] + 1]
           /\ UNCHANGED <<primary, program, handle, recent, txn, rows, schemas, faults>>
<1>1. call[t].phase = "calling" /\ call[t] \in Call /\ handle[t] \in Handle
      /\ serial[t] \in Nat /\ t \in Threads
  BY CallCases DEF Send, TypeOK
<1>2. Target(t) \in Node
  BY <1>1, TargetIsNode
<1>3. <<t, serial[t] + 1>> \in Id
  BY <1>1 DEF Id
<1>4. <<>> \in Partial(Keys, Row)
  BY EmptyIsPartial
<1>5. call[t].op \in Op /\ handle[t].id \in Id \cup {None} /\ call[t].asked \in SUBSET Node
  BY <1>1 DEF Call, Handle
<1>6. Request(t) \in Handler
  BY <1>2, <1>3, <1>4, <1>5 DEF Request, Handler, Steps
<1>7. Waits(t) \in Call
  BY <1>1, <1>2, <1>3, <1>5 DEF Waits, Call, Phases
<1> QED
  BY <1>1, <1>2, <1>6, <1>7 DEF Send, Request, Waits, TypeOK

(* What Send puts into the network is a request. *)
LEMMA SendTypes ==
    ASSUME TypeOK, NEW t \in Threads, Send(t)
    PROVE  TypeOK'
<1>1. /\ Request(t) \in Handler /\ Waits(t) \in Call
      /\ running' = running \cup {Request(t)}
      /\ call' = [call EXCEPT ![t] = Waits(t)]
      /\ serial' = [serial EXCEPT ![t] = serial[t] + 1]
      /\ UNCHANGED <<primary, program, handle, recent, txn, rows, schemas, faults>>
  BY SendParts
<1>2. serial' \in [Threads -> Nat]
  BY <1>1 DEF TypeOK
<1>3. call' \in [Threads -> Call \cup {Idle}]
  BY <1>1 DEF TypeOK
<1>4. running' \in SUBSET Handler
  BY <1>1 DEF TypeOK
<1> QED
  BY <1>1, <1>2, <1>3, <1>4 DEF TypeOK

(* The other calls see the primary move, and change in nothing else. *)
LEMMA SawMoveParts ==
    ASSUME TypeOK, NEW t \in Threads, NEW n \in Node
    PROVE  /\ SawMove(t, n) \in [Threads -> Call \cup {Idle}]
           /\ SawMove(t, n)[t] = call[t]
           /\ \A u \in Threads :
                 \/ SawMove(t, n)[u] = call[u]
                 \/ /\ call[u] \in Call /\ n # primary
                    /\ call[u].phase \in {"calling", "waiting", "answered"}
                    /\ SawMove(t, n)[u] = [call[u] EXCEPT !.moved = TRUE]
           /\ n # primary => \A u \in Threads \ {t} :
                 call[u].phase \in {"calling", "waiting", "answered"} => SawMove(t, n)[u].moved
<1>1. \A u \in Threads : call[u] \in Call \cup {Idle}
  BY DEF TypeOK
<1>2. \A u \in Threads : call[u].phase \in {"calling", "waiting", "answered"} => call[u] \in Call
  BY CallCases
<1>3. \A c \in Call : [c EXCEPT !.moved = TRUE] \in Call /\ [c EXCEPT !.moved = TRUE].moved
  BY DEF Call
<1> QED
  BY <1>1, <1>2, <1>3 DEF SawMove

(* One other call that sees, or does not see, the primary move *)
LEMMA OneSawMove ==
    ASSUME TypeOK, NEW t \in Threads, NEW n \in Node, NEW u \in Threads
    PROVE  \/ SawMove(t, n)[u] = call[u]
           \/ call[u] \in Call /\ SawMove(t, n)[u] = [call[u] EXCEPT !.moved = TRUE]
<1>1. \/ SawMove(t, n)[u] = call[u]
      \/ /\ call[u].phase \in {"calling", "waiting", "answered"}
         /\ SawMove(t, n)[u] = [call[u] EXCEPT !.moved = TRUE]
  BY DEF SawMove
<1>2. call[u].phase \in {"calling", "waiting", "answered"} => call[u] \in Call
  BY CallCases
<1> QED
  BY <1>1, <1>2

(* The answering node, or the primary *)
LEMMA NewPrimaryIsNode ==
    ASSUME TypeOK, NEW t \in Threads, call[t].phase # "idle"
    PROVE  NewPrimary(t) \in Node
<1>1. call[t] \in Call /\ primary \in Node
  BY CallCases DEF TypeOK
<1> QED
  BY <1>1 DEF NewPrimary, Call

(* What the caller's handle becomes, and what its call then is *)
LEMMA ReceiveParts ==
    ASSUME TypeOK, NEW t \in Threads, Receive(t)
    PROVE  /\ call[t].phase = "answered" /\ call[t] \in Call /\ NewPrimary(t) \in Node
           /\ primary' = NewPrimary(t)
           /\ call' = [SawMove(t, NewPrimary(t)) EXCEPT ![t] = Idle]
           /\ \A u \in Threads : u # t => handle'[u] = handle[u]
           /\ DOMAIN handle' = Threads /\ handle'[t] \in Handle
           /\ call[t].op.kind = "begin" =>
                 handle'[t] = [node |-> call[t].node, id |-> call[t].id,
                               told |-> None, ends |-> 0]
           /\ call[t].op.kind # "begin" =>
                 /\ handle'[t].node = handle[t].node /\ handle'[t].id = handle[t].id
                 /\ handle'[t].ends = handle[t].ends
                 /\ handle'[t].told = IF call[t].op.kind = "commit" THEN call[t].answer
                                      ELSE IF call[t].op.kind = "abort" THEN "aborted"
                                      ELSE handle[t].told
           /\ UNCHANGED <<program, serial, txn, rows, schemas, running, faults>>
<1>1. call[t].phase = "answered" /\ call[t] \in Call /\ NewPrimary(t) \in Node
  BY CallCases, NewPrimaryIsNode DEF Receive
<1>2. handle \in [Threads -> Handle] /\ handle[t] \in Handle
  BY DEF TypeOK
<1> DEFINE c == call[t]
           told(x) == [handle[t] EXCEPT !.told = x]
           H == CASE c.op.kind = "begin" -> [NoHandle EXCEPT !.node = c.node, !.id = c.id]
                  [] c.op.kind = "commit" -> told(c.answer)
                  [] c.op.kind = "abort" -> told("aborted")
                  [] OTHER -> handle[t]
<1>3. handle' = [handle EXCEPT ![t] = H]
  BY DEF Receive
<1>4. \A x \in Answers : /\ told(x) \in Handle /\ told(x).node = handle[t].node
                         /\ told(x).id = handle[t].id /\ told(x).ends = handle[t].ends
                         /\ told(x).told = x
  BY <1>2 DEF Handle
<1>5. c.answer \in Answers /\ "aborted" \in Answers
  BY <1>1 DEF Call, Answers, Verdict
<1> HIDE DEF told
<1>6. CASE c.op.kind = "begin"
  <2>1. H = [node |-> c.node, id |-> c.id, told |-> None, ends |-> 0]
    BY <1>6 DEF NoHandle
  <2>2. c.node \in Node /\ c.id \in Id \cup {None}
    BY <1>1 DEF Call
  <2>3. [node |-> c.node, id |-> c.id, told |-> None, ends |-> 0] \in Handle
    BY <2>2 DEF Handle, Answers, Values
  <2> QED
    BY <1>1, <1>2, <1>3, <1>6, <2>1, <2>3 DEF Receive
<1>7. CASE c.op.kind = "commit"
  BY <1>1, <1>2, <1>3, <1>4, <1>5, <1>7 DEF Receive
<1>8. CASE c.op.kind = "abort"
  BY <1>1, <1>2, <1>3, <1>4, <1>5, <1>8 DEF Receive
<1>9. CASE c.op.kind \notin {"begin", "commit", "abort"}
  BY <1>1, <1>2, <1>3, <1>9 DEF Receive
<1> QED
  BY <1>6, <1>7, <1>8, <1>9

(* An answer leaves its thread idle. *)
LEMMA ReceiveTypes ==
    ASSUME TypeOK, NEW t \in Threads, Receive(t)
    PROVE  TypeOK'
<1>1. /\ call[t] \in Call /\ NewPrimary(t) \in Node /\ primary' = NewPrimary(t)
      /\ call' = [SawMove(t, NewPrimary(t)) EXCEPT ![t] = Idle]
      /\ \A u \in Threads : u # t => handle'[u] = handle[u]
      /\ DOMAIN handle' = Threads /\ handle'[t] \in Handle
      /\ UNCHANGED <<program, serial, txn, rows, schemas, running, faults>>
  BY ReceiveParts
<1>2. call' \in [Threads -> Call \cup {Idle}]
  BY <1>1, SawMoveParts
<1>3. handle' \in [Threads -> Handle]
  <2>1. handle' = [u \in Threads |-> handle'[u]]
    BY DEF Receive, TypeOK
  <2> QED
    BY <1>1, <2>1 DEF TypeOK
<1>4. recent' \in [Threads -> Keys \cup {None}]
  <2>1. call[t].op.kind \in {"put", "insert"} => call[t].op.key \in Keys
    BY <1>1, OpKey DEF Call
  <2>2. recent \in [Threads -> Keys \cup {None}]
    BY DEF TypeOK
  <2> QED
    BY <2>1, <2>2 DEF Receive
<1> QED
  BY <1>1, <1>2, <1>3, <1>4 DEF TypeOK

(* The call after an attempt that failed *)
Retries(t) == FailsOver(call[t].op) /\ call[t].attempt + 1 < N
Failed(t) ==
    IF Retries(t) THEN [call[t] EXCEPT !.phase = "calling", !.attempt = call[t].attempt + 1]
    ELSE [call[t] EXCEPT !.phase = "raised"]

(* A broken connection in terms of the failed call *)
LEMMA LoseParts ==
    ASSUME TypeOK, NEW t \in Threads, Lose(t)
    PROVE  /\ Sent(t) /\ call[t] \in Call /\ Failed(t) \in Call
           /\ call' = [call EXCEPT ![t] = Failed(t)]
           /\ running' \subseteq running
           /\ faults' \in Nat
           /\ UNCHANGED <<primary, program, serial, handle, recent, txn, rows, schemas>>
<1>1. Sent(t) /\ call[t] \in Call
  BY CallCases DEF Lose, Sent
<1>2. Failed(t) \in Call
  <2>1. call[t].attempt + 1 \in Nat
    BY <1>1 DEF Call
  <2> QED
    BY <1>1, <2>1 DEF Failed, Call, Phases
<1>3. call' = [call EXCEPT ![t] = Failed(t)]
  BY <1>1 DEF Lose, AttemptFails, Failed, Retries, TypeOK
<1>4. faults' \in Nat
  BY DEF Lose, TypeOK
<1> QED
  BY <1>1, <1>2, <1>3, <1>4 DEF Lose, AttemptFails

(* The attempt that failed leaves a call. *)
LEMMA LoseTypes ==
    ASSUME TypeOK, NEW t \in Threads, Lose(t)
    PROVE  TypeOK'
<1>1. /\ Failed(t) \in Call /\ call' = [call EXCEPT ![t] = Failed(t)]
      /\ running' \subseteq running /\ faults' \in Nat
      /\ UNCHANGED <<primary, program, serial, handle, recent, txn, rows, schemas>>
  BY LoseParts
<1>2. call' \in [Threads -> Call \cup {Idle}]
  BY <1>1 DEF TypeOK
<1> QED
  BY <1>1, <1>2 DEF TypeOK

(* After an error the thread is idle. *)
LEMMA RaiseTypes ==
    ASSUME TypeOK, NEW t \in Threads, Raise(t)
    PROVE  TypeOK'
<1>1. program' \in [Threads -> Seq(Op)]
  <2>1. <<>> \in Seq(Op)
    OBVIOUS
  <2> QED
    BY <2>1 DEF Raise, TypeOK
<1>2. call' \in [Threads -> Call \cup {Idle}]
  BY DEF Raise, TypeOK
<1> QED
  BY <1>1, <1>2 DEF Raise, TypeOK

(* What is left after a restart of a node are requests and transactions. *)
LEMMA RestartTypes ==
    ASSUME TypeOK, NEW n \in Node, Restart(n)
    PROVE  TypeOK'
<1>1. txn \in [DOMAIN txn -> Txn] /\ DOMAIN txn \in SUBSET Id
  BY DEF TypeOK
<1>2. \A x \in Txn : [x EXCEPT !.live = FALSE,
                         !.state = IF x.state = "committed" THEN "committed" ELSE "lost"] \in Txn
  BY DEF Txn
<1>3. DOMAIN txn' = DOMAIN txn /\ txn' \in [DOMAIN txn -> Txn]
  BY <1>1, <1>2 DEF Restart
<1>4. running' \in SUBSET Handler
  <2>1. running' \subseteq running /\ running \in SUBSET Handler
    BY DEF Restart, TypeOK
  <2> QED
    BY <2>1
<1>6. schemas' \in SUBSET Node
  BY DEF Restart, TypeOK
<1>5. faults' \in Nat
  <2>1. faults' = faults + 1
    BY Zenon DEF Restart
  <2> QED
    BY <2>1 DEF TypeOK
<1> QED
  BY <1>1, <1>3, <1>4, <1>5, <1>6 DEF Restart, clientVars, TypeOK

-----------------------------------------------------------------------------
(* What a step of a server does to calls and requests *)

(* The request and what it asks for stay the same. *)
Same(g, f) == g.by = f.by /\ g.id = f.id /\ g.node = f.node /\ g.op = f.op /\ g.txn = f.txn

(* Nor has its handler moved, except that another one may have disturbed it. *)
SameWork(g, f) ==
    /\ g.step = f.step /\ g.result = f.result /\ g.todo = f.todo /\ g.before = f.before
    /\ g.clean => f.clean

(* The answer a reaches the call that waits for h, if there is one. *)
Answered(h, a) ==
    /\ call' \in [Threads -> Call \cup {Idle}]
    /\ \A t \in Threads :
          \/ /\ call'[t] = call[t]
             /\ ~(call[t].phase = "waiting" /\ call[t].id = h.id /\ t = h.by)
          \/ /\ t = h.by /\ call[t] \in Call /\ call[t].phase = "waiting" /\ call[t].id = h.id
             /\ call'[t] = [call[t] EXCEPT !.phase = "answered", !.answer = a]

(* The requests go on, each at most once, and only the handler h has moved. *)
GoOn(h) ==
    /\ running' \in SUBSET Handler
    /\ \A g \in running' : \E f \in running : Same(g, f) /\ (f # h => SameWork(g, f))
    /\ \A g1, g2 \in running' : g1.id = g2.id => g1 = g2

(* What is told of every step of a server *)
Serves(h) ==
    /\ GoOn(h)
    /\ \/ call' = call
       \/ /\ \E a \in Answers : Answered(h, a)
          /\ \A g \in running' : g.id # h.id
    /\ UNCHANGED <<primary, program, serial, handle, faults>>

(* Requests have names of their own. *)
OwnNames == \A g, h \in running : g.id = h.id => g = h

(* Reply in terms of the calls *)
LEMMA ReplyParts ==
    ASSUME TypeOK, NEW h \in running, NEW a \in Answers, Reply(h, a)
    PROVE  Answered(h, a) /\ UNCHANGED <<primary, program, serial, handle, faults>>
<1>1. h.by \in Threads
  BY DEF TypeOK, Handler
<1>2. call[h.by].phase = "waiting" => call[h.by] \in Call
  BY <1>1, CallCases
<1>3. \A c \in Call : [c EXCEPT !.phase = "answered", !.answer = a] \in Call
  BY DEF Call, Phases
<1>4. call \in [Threads -> Call \cup {Idle}]
  BY DEF TypeOK
<1>5. UNCHANGED <<primary, program, serial, handle, faults>>
  BY DEF Reply
<1>6. CASE call[h.by].phase = "waiting" /\ call[h.by].id = h.id
  <2> DEFINE c == [call[h.by] EXCEPT !.phase = "answered", !.answer = a]
  <2>1. c \in Call
    BY <1>2, <1>3, <1>6
  <2>2. call' = [call EXCEPT ![h.by] = c]
    BY <1>1, <1>4, <1>6 DEF Reply
  <2> HIDE DEF c
  <2>3. call' \in [Threads -> Call \cup {Idle}] /\ call'[h.by] = c
        /\ \A t \in Threads : t # h.by => call'[t] = call[t]
    BY <1>1, <1>4, <2>1, <2>2
  <2> QED
    BY <1>2, <1>5, <1>6, <2>3 DEF Answered, c
<1>7. CASE ~(call[h.by].phase = "waiting" /\ call[h.by].id = h.id)
  <2>1. call' = call
    BY <1>7 DEF Reply
  <2> QED
    BY <1>4, <1>5, <1>7, <2>1 DEF Answered
<1> QED
  BY <1>6, <1>7

(* The requests that are left when h is done *)
LEMMA LeaveGoOn ==
    ASSUME TypeOK, OwnNames, NEW h \in running, running' \subseteq Others(h)
    PROVE  GoOn(h) /\ \A g \in running' : g.id # h.id
<1>1. running' \subseteq running /\ running \in SUBSET Handler
  BY DEF Others, TypeOK
<1>2. \A g \in running' : g # h
  BY DEF Others
<1>3. \A g \in Handler : Same(g, g) /\ SameWork(g, g)
  BY DEF Same, SameWork
<1> QED
  BY <1>1, <1>2, <1>3 DEF GoOn, OwnNames

(* One disturbed request *)
Touched(n, g) == IF g.node = n THEN [g EXCEPT !.clean = FALSE] ELSE g

(* To be disturbed changes no more of a request than whether it is clean. *)
LEMMA TouchedIsSame ==
    ASSUME NEW n, NEW g \in Handler
    PROVE  /\ Touched(n, g) \in Handler /\ Same(Touched(n, g), g) /\ SameWork(Touched(n, g), g)
           /\ g.node = n => ~Touched(n, g).clean
BY DEF Touched, Handler, Same, SameWork

(* The requests that are left, disturbed, when h is done *)
LEMMA DisturbGoOn ==
    ASSUME TypeOK, OwnNames, NEW h \in running, NEW n, running' = Disturbed(n, Others(h))
    PROVE  GoOn(h) /\ \A g \in running' : g.id # h.id
<1>1. Others(h) \subseteq running /\ running \in SUBSET Handler /\ h \notin Others(h)
  BY DEF Others, TypeOK
<1>2. \A g \in running' : \E f \in Others(h) : g = Touched(n, f)
  BY DEF Disturbed, Touched
<1>3. \A g \in running' : \E f \in Others(h) :
         g = Touched(n, f) /\ g \in Handler /\ Same(g, f) /\ SameWork(g, f)
  BY <1>1, <1>2, TouchedIsSame
<1>4. \A g \in running' : g.id # h.id
  BY <1>1, <1>3 DEF OwnNames, Same
<1>5. \A g1, g2 \in running' : g1.id = g2.id => g1 = g2
  BY <1>1, <1>3 DEF OwnNames, Same
<1> QED
  BY <1>1, <1>3, <1>4, <1>5 DEF GoOn

(* The handler moves on, and the others go on as they were. *)
LEMMA MoveGoOn ==
    ASSUME TypeOK, OwnNames, NEW h \in running, NEW g \in Handler, Same(g, h),
           running' = Others(h) \cup {g}
    PROVE  GoOn(h)
<1>1. Others(h) \subseteq running /\ running \in SUBSET Handler
  BY DEF Others, TypeOK
<1>2. \A f \in Handler : Same(f, f) /\ SameWork(f, f)
  BY DEF Same, SameWork
<1>3. \A f \in Others(h) : f.id # g.id
  BY <1>1 DEF Others, OwnNames, Same
<1>4. \A g1, g2 \in running' : g1.id = g2.id => g1 = g2
  BY <1>1, <1>3 DEF OwnNames
<1> QED
  BY <1>1, <1>2, <1>4 DEF GoOn

(* The handler moves on, and has disturbed the others. *)
LEMMA WriteGoOn ==
    ASSUME TypeOK, OwnNames, NEW h \in running, NEW n, NEW g \in Handler, Same(g, h),
           running' = Disturbed(n, Others(h)) \cup {g}
    PROVE  GoOn(h)
<1>1. Others(h) \subseteq running /\ running \in SUBSET Handler /\ h \notin Others(h)
  BY DEF Others, TypeOK
<1>2. \A d \in Disturbed(n, Others(h)) : \E f \in Others(h) :
         d = Touched(n, f) /\ d \in Handler /\ Same(d, f) /\ SameWork(d, f)
  <2>1. \A d \in Disturbed(n, Others(h)) : \E f \in Others(h) : d = Touched(n, f)
    BY DEF Disturbed, Touched
  <2> QED
    BY <1>1, <2>1, TouchedIsSame
<1>3. \A d \in Disturbed(n, Others(h)) : d.id # g.id
  BY <1>1, <1>2 DEF OwnNames, Same
<1>4. \A g1, g2 \in Disturbed(n, Others(h)) : g1.id = g2.id => g1 = g2
  BY <1>1, <1>2 DEF OwnNames, Same
<1>5. \A g1, g2 \in running' : g1.id = g2.id => g1 = g2
  BY <1>3, <1>4
<1>6. \A d \in running' : \E f \in running : Same(d, f) /\ (f # h => SameWork(d, f))
  BY <1>1, <1>2
<1>7. running' \in SUBSET Handler
  BY <1>2
<1> QED
  BY <1>5, <1>6, <1>7 DEF GoOn

(* A write leaves rows and recent puts. *)
LEMMA WriteTypes ==
    ASSUME TypeOK, NEW n \in Node, NEW new \in Partial(Keys, Row), Write(n, new)
    PROVE  /\ rows' \in [Node -> [Keys -> Row]]
           /\ recent' \in [Threads -> Keys \cup {None}]
           /\ \A m \in Node : m # n => rows'[m] = rows[m]
           /\ \A k \in Keys : rows'[n][k] = IF k \in DOMAIN new THEN new[k] ELSE rows[n][k]
           /\ \A t \in Threads :
                 recent'[t] = IF recent[t] \in DOMAIN new /\ new[recent[t]].v # t THEN None
                              ELSE recent[t]
<1>1. DOMAIN new \subseteq Keys /\ \A k \in DOMAIN new : new[k] \in Row
  BY PartialParts
<1>2. rows \in [Node -> [Keys -> Row]] /\ recent \in [Threads -> Keys \cup {None}]
  BY DEF TypeOK
<1> DEFINE R == [k \in Keys |-> IF k \in DOMAIN new THEN new[k] ELSE rows[n][k]]
<1>3. R \in [Keys -> Row]
  BY <1>1, <1>2
<1>4. rows' = [rows EXCEPT ![n] = R]
  BY DEF Write
<1>5. rows' \in [Node -> [Keys -> Row]] /\ rows'[n] = R
      /\ \A m \in Node : m # n => rows'[m] = rows[m]
  BY <1>2, <1>3, <1>4
<1>6. recent' \in [Threads -> Keys \cup {None}]
  BY <1>2 DEF Write
<1> QED
  BY <1>5, <1>6 DEF Write

-----------------------------------------------------------------------------
(* The steps of a server, one by one *)

DataTyped ==
    /\ DOMAIN txn' \in SUBSET Id /\ txn' \in [DOMAIN txn' -> Txn]
    /\ rows' \in [Node -> [Keys -> Row]]
    /\ schemas' \in SUBSET Node
    /\ recent' \in [Threads -> Keys \cup {None}]

(* Transactions stay on their node; they begin with a request, end for good,
   and are only applied by the commit h. *)
TxnsGoOn(h) ==
    /\ IF h.op.kind = "begin"
       THEN /\ DOMAIN txn' = DOMAIN txn \cup {h.id}
            /\ txn'[h.id].node = h.node /\ txn'[h.id].applied = 0
            /\ \A g \in running' : g.id # h.id
       ELSE DOMAIN txn' = DOMAIN txn
    /\ \A i \in DOMAIN txn :
          /\ txn'[i].node = txn[i].node
          /\ txn'[i].live => txn[i].live
          /\ \/ txn'[i].applied = txn[i].applied
             \/ i = h.txn /\ CommitApply(h) /\ txn'[i].applied = txn[i].applied + 1

Step(h) == Serves(h) /\ DataTyped /\ TxnsGoOn(h)

(* After a step of a server everything is what it should be. *)
LEMMA StepTypes ==
    ASSUME TypeOK, NEW h \in running, Step(h)
    PROVE  TypeOK'
<1>1. running' \in SUBSET Handler /\ UNCHANGED <<primary, program, serial, handle, faults>>
  BY DEF Step, Serves, GoOn
<1>2. call' \in [Threads -> Call \cup {Idle}]
  BY DEF Step, Serves, Answered, TypeOK
<1> QED
  BY <1>1, <1>2 DEF Step, DataTyped, TypeOK

(* Data no step has touched *)
LEMMA SameData ==
    ASSUME TypeOK, UNCHANGED <<rows, schemas, recent>>
    PROVE  /\ rows' \in [Node -> [Keys -> Row]]
           /\ schemas' \in SUBSET Node
           /\ recent' \in [Threads -> Keys \cup {None}]
BY DEF TypeOK

(* Transactions no step has touched *)
LEMMA SameTxns ==
    ASSUME TypeOK, NEW h \in running, h.op.kind # "begin", UNCHANGED txn
    PROVE  /\ DOMAIN txn' \in SUBSET Id /\ txn' \in [DOMAIN txn' -> Txn]
           /\ TxnsGoOn(h)
BY DEF TypeOK, TxnsGoOn

(* A step that answers *)
LEMMA AnswerServes ==
    ASSUME TypeOK, OwnNames, NEW h \in running, NEW a \in Answers, Answer(h, a)
    PROVE  Serves(h)
<1>1. Answered(h, a) /\ UNCHANGED <<primary, program, serial, handle, faults>>
  BY ReplyParts DEF Answer
<1>2. GoOn(h) /\ \A g \in running' : g.id # h.id
  BY LeaveGoOn DEF Answer
<1> QED
  BY <1>1, <1>2 DEF Serves

(* A step after which the handler has more to do *)
LEMMA GoesServes ==
    ASSUME TypeOK, OwnNames, NEW h \in running, NEW g \in Handler, Same(g, h), Goes(h, g)
    PROVE  Serves(h)
<1>1. GoOn(h)
  BY MoveGoOn DEF Goes
<1> QED
  BY <1>1 DEF Serves, Goes

(* The words that are answers *)
LEMMA Verdicts ==
    /\ "ok" \in Answers /\ "error" \in Answers /\ "not_found" \in Answers
    /\ "refused" \in Answers /\ None \in Answers
BY DEF Answers, Verdict, Values

(* The parts of a request *)
LEMMA HandlerParts ==
    ASSUME TypeOK, NEW h \in running
    PROVE  /\ h \in Handler /\ h.by \in Threads /\ h.id \in Id /\ h.node \in Node /\ h.op \in Op
           /\ h.step \in Steps /\ h.result \in {None, "ok", "refused", "error"}
           /\ h.todo \in Partial(Keys, Row) /\ h.before \in Partial(Keys, Row)
BY DEF TypeOK, Handler

(* Some steps change neither the data nor a transaction. *)
LEMMA QuietStep ==
    ASSUME TypeOK, NEW h \in running, h.op.kind # "begin", Serves(h),
           UNCHANGED <<rows, schemas, recent, txn>>
    PROVE  Step(h)
<1>1. UNCHANGED <<rows, schemas, recent>> /\ UNCHANGED txn
  OBVIOUS
<1> QED
  BY <1>1, SameData, SameTxns DEF Step, DataTyped

(* store.put *)
LEMMA StorePutStep ==
    ASSUME TypeOK, OwnNames, NEW h \in running, h.op.kind \in {"put", "insert"}, StorePut(h)
    PROVE  Step(h)
<1>1. h.by \in Threads /\ h.node \in Node /\ h.op \in Op
  BY HandlerParts
<1>2. h.op.key \in Keys
  BY <1>1, OpKey
<1> DEFINE new == [k \in {h.op.key} |-> [v |-> h.by, w |-> h.by]]
<1>3. new \in Partial(Keys, Row)
  <2>1. [v |-> h.by, w |-> h.by] \in Row
    BY <1>1 DEF Row, Values
  <2>2. {h.op.key} \in SUBSET Keys /\ new \in [{h.op.key} -> Row]
    BY <1>2, <2>1
  <2> QED
    BY <2>2, PartialMade
<1>4. Write(h.node, new) /\ Reply(h, "ok") /\ running' = Disturbed(h.node, Others(h))
      /\ UNCHANGED <<txn, schemas>>
  BY DEF StorePut
<1> HIDE DEF new
<1>5. rows' \in [Node -> [Keys -> Row]] /\ recent' \in [Threads -> Keys \cup {None}]
  BY <1>1, <1>3, <1>4, WriteTypes
<1>6. GoOn(h) /\ \A g \in running' : g.id # h.id
  BY <1>4, DisturbGoOn
<1>7. Answered(h, "ok") /\ UNCHANGED <<primary, program, serial, handle, faults>>
  BY <1>4, ReplyParts, Verdicts
<1>8. Serves(h)
  BY <1>6, <1>7, Verdicts DEF Serves
<1>9. h.op.kind # "begin" /\ UNCHANGED txn /\ schemas' \in SUBSET Node
  BY <1>4 DEF TypeOK
<1> QED
  BY <1>5, <1>8, <1>9, SameTxns DEF Step, DataTyped

(* CREATE TABLE answers. *)
LEMMA CreateTableStep ==
    ASSUME TypeOK, OwnNames, NEW h \in running, CreateTable(h)
    PROVE  Step(h)
<1>1. Serves(h)
  BY AnswerServes, Verdicts DEF CreateTable
<1>2. schemas' \in SUBSET Node
  BY HandlerParts DEF CreateTable, TypeOK
<1>3. rows' \in [Node -> [Keys -> Row]] /\ recent' \in [Threads -> Keys \cup {None}]
  BY DEF CreateTable, TypeOK
<1>4. h.op.kind # "begin" /\ UNCHANGED txn
  BY DEF CreateTable
<1> QED
  BY <1>1, <1>2, <1>3, <1>4, SameTxns DEF Step, DataTyped

(* A get, a table that is not there, a request without its transaction *)
LEMMA ReadStep ==
    ASSUME TypeOK, OwnNames, NEW h \in running, GetRow(h) \/ TableNotFound(h) \/ TxnNotFound(h)
    PROVE  Step(h)
<1>1. CASE GetRow(h)
  <2>1. h.op.key \in Keys /\ h.node \in Node
    BY <1>1, HandlerParts, OpKey DEF GetRow
  <2>2. rows[h.node][h.op.key].v \in Answers
    BY <2>1 DEF TypeOK, Row, Answers
  <2>3. Serves(h)
    BY <1>1, <2>2, AnswerServes DEF GetRow
  <2> QED
    BY <1>1, <2>3, QuietStep DEF GetRow
<1>2. CASE TableNotFound(h)
  <2>1. Serves(h)
    BY <1>2, AnswerServes, Verdicts DEF TableNotFound
  <2> QED
    BY <1>2, <2>1, QuietStep DEF TableNotFound, Sql
<1>3. CASE TxnNotFound(h)
  <2>1. Serves(h)
    BY <1>3, AnswerServes, Verdicts DEF TxnNotFound
  <2> QED
    BY <1>3, <2>1, QuietStep DEF TxnNotFound
<1> QED
  BY <1>1, <1>2, <1>3

(* INSERT puts its row or is refused. *)
LEMMA InsertRowStep ==
    ASSUME TypeOK, OwnNames, NEW h \in running, InsertRow(h)
    PROVE  Step(h)
<1>1. CASE StorePut(h)
  BY <1>1, StorePutStep DEF InsertRow
<1>2. CASE Answer(h, "error") /\ UNCHANGED <<rows, schemas, txn, recent>>
  <2>1. Serves(h)
    BY <1>2, AnswerServes, Verdicts
  <2> QED
    BY <1>2, <2>1, QuietStep DEF InsertRow
<1> QED
  BY <1>1, <1>2 DEF InsertRow

(* The handler of an UPDATE or DELETE after its scan *)
Scanned(h) ==
    [h EXCEPT !.step = "writing", !.before = rows[h.node],
        !.todo = [k \in {x \in Keys : Matches(h.op, rows[h.node][x])} |-> rows[h.node][k]]]

(* A scan goes on with the rows it found. *)
LEMMA ScanStep ==
    ASSUME TypeOK, OwnNames, NEW h \in running, Scan(h)
    PROVE  Step(h) /\ Scanned(h) \in Handler /\ Goes(h, Scanned(h))
<1>1. h \in Handler /\ h.node \in Node
  BY HandlerParts
<1>2. rows[h.node] \in [Keys -> Row]
  BY <1>1 DEF TypeOK
<1>3. rows[h.node] \in Partial(Keys, Row)
  BY <1>2, PartialMade
<1> DEFINE found == {x \in Keys : Matches(h.op, rows[h.node][x])}
           todo == [k \in found |-> rows[h.node][k]]
<1>4. todo \in Partial(Keys, Row)
  <2>1. found \in SUBSET Keys /\ todo \in [found -> Row]
    BY <1>2
  <2> HIDE DEF found, todo
  <2> QED
    BY <2>1, PartialMade
<1>5. Goes(h, Scanned(h))
  BY DEF Scan, Scanned
<1>6. Scanned(h) \in Handler /\ Same(Scanned(h), h)
  <2> HIDE DEF found, todo
  <2>1. Scanned(h) = [h EXCEPT !.step = "writing", !.before = rows[h.node], !.todo = todo]
    BY DEF Scanned, found, todo
  <2> QED
    BY <1>1, <1>3, <1>4, <2>1 DEF Handler, Steps, Same
<1>7. Serves(h)
  BY <1>5, <1>6, GoesServes
<1> QED
  BY <1>5, <1>6, <1>7, QuietStep DEF Scan

(* The handler after it has written the row k *)
Wrote(h, k) == [h EXCEPT !.todo = [j \in DOMAIN h.todo \ {k} |-> h.todo[j]]]

(* A row of the scan is written. *)
LEMMA WriteRowStep ==
    ASSUME TypeOK, OwnNames, NEW h \in running, h.op.kind \in {"update", "delete"},
           NEW k \in DOMAIN h.todo, NEW row \in Row, WriteRow(h, k, row)
    PROVE  /\ Step(h) /\ Wrote(h, k) \in Handler /\ k \in Keys
           /\ running' = Disturbed(h.node, Others(h)) \cup {Wrote(h, k)}
           /\ DOMAIN Wrote(h, k).todo = DOMAIN h.todo \ {k}
           /\ \A j \in DOMAIN h.todo \ {k} : Wrote(h, k).todo[j] = h.todo[j]
           /\ rows' \in [Node -> [Keys -> Row]]
           /\ \A m \in Node : m # h.node => rows'[m] = rows[m]
           /\ \A j \in Keys : rows'[h.node][j] = IF j = k THEN row ELSE rows[h.node][j]
<1>1. h \in Handler /\ h.node \in Node /\ h.todo \in Partial(Keys, Row)
  BY HandlerParts
<1>2. DOMAIN h.todo \subseteq Keys /\ \A j \in DOMAIN h.todo : h.todo[j] \in Row
  BY <1>1, PartialParts
<1> DEFINE new == [j \in {k} |-> row]
           todo == [j \in DOMAIN h.todo \ {k} |-> h.todo[j]]
<1>3. new \in Partial(Keys, Row) /\ DOMAIN new = {k} /\ new[k] = row
  <2>1. {k} \in SUBSET Keys /\ new \in [{k} -> Row]
    BY <1>2
  <2> QED
    BY <2>1, PartialMade
<1>4. todo \in Partial(Keys, Row)
  <2>1. DOMAIN h.todo \ {k} \in SUBSET Keys /\ todo \in [DOMAIN h.todo \ {k} -> Row]
    BY <1>2
  <2> HIDE DEF todo
  <2> QED
    BY <2>1, PartialMade
<1>5. Write(h.node, new) /\ running' = Disturbed(h.node, Others(h)) \cup {Wrote(h, k)}
      /\ UNCHANGED <<primary, program, call, serial, handle, faults, txn, schemas>>
  BY DEF WriteRow, Wrote
<1>6. Wrote(h, k) \in Handler /\ Same(Wrote(h, k), h) /\ Wrote(h, k).todo = todo
  <2> HIDE DEF todo
  <2>1. Wrote(h, k) = [h EXCEPT !.todo = todo]
    BY DEF Wrote, todo
  <2> QED
    BY <1>1, <1>4, <2>1 DEF Handler, Same
<1> HIDE DEF new
<1>7. /\ rows' \in [Node -> [Keys -> Row]] /\ recent' \in [Threads -> Keys \cup {None}]
      /\ \A m \in Node : m # h.node => rows'[m] = rows[m]
      /\ \A j \in Keys : rows'[h.node][j] = IF j \in DOMAIN new THEN new[j] ELSE rows[h.node][j]
  BY <1>1, <1>3, <1>5, WriteTypes
<1>8. Serves(h)
  BY <1>5, <1>6, WriteGoOn DEF Serves
<1>9. h.op.kind # "begin" /\ UNCHANGED txn /\ schemas' \in SUBSET Node
  BY <1>5 DEF TypeOK
<1>10. Step(h)
  BY <1>7, <1>8, <1>9, SameTxns DEF Step, DataTyped
<1> QED
  BY <1>2, <1>3, <1>5, <1>6, <1>7, <1>10

(* The rows an UPDATE or DELETE writes are rows. *)
LEMMA ImagesAreRows ==
    ASSUME TypeOK, NEW h \in running
    PROVE  Missing \in Row /\ \A k \in DOMAIN h.todo : Image(h, h.todo[k]) \in Row
<1>1. \A k \in DOMAIN h.todo : h.todo[k] \in Row
  BY HandlerParts, PartialParts
<1>2. h.by \in Values
  BY HandlerParts DEF Values
<1> QED
  BY <1>1, <1>2 DEF Image, Missing, Row, Values

(* UPDATE and DELETE write one row at a time. *)
LEMMA UpdateDeleteStep ==
    ASSUME TypeOK, OwnNames, NEW h \in running, UpdateRow(h) \/ DeleteRow(h)
    PROVE  Step(h)
<1>1. CASE UpdateRow(h)
  <2>1. PICK k \in NextRow(h) : WriteRow(h, k, Image(h, h.todo[k]))
    BY <1>1 DEF UpdateRow
  <2>2. k \in DOMAIN h.todo
    BY DEF NextRow
  <2> QED
    BY <1>1, <2>1, <2>2, ImagesAreRows, WriteRowStep DEF UpdateRow
<1>2. CASE DeleteRow(h)
  <2>1. PICK k \in NextRow(h) : WriteRow(h, k, Missing)
    BY <1>2 DEF DeleteRow
  <2>2. k \in DOMAIN h.todo
    BY DEF NextRow
  <2> QED
    BY <1>2, <2>1, <2>2, ImagesAreRows, WriteRowStep DEF DeleteRow
<1> QED
  BY <1>1, <1>2

(* A statement answers when it has no row left. *)
LEMMA StatementDoneStep ==
    ASSUME TypeOK, OwnNames, StepsFit, NEW h \in running, StatementDone(h)
    PROVE  Step(h)
<1>1. h.op.kind # "begin"
  BY DEF StepsFit, StatementDone
<1>2. Serves(h)
  BY AnswerServes, Verdicts DEF StatementDone
<1> QED
  BY <1>1, <1>2, QuietStep DEF StatementDone

(* The transaction has a name of its own. *)
LEMMA BeginStep ==
    ASSUME TypeOK, RequestsNamed, NEW h \in running, BeginTransaction(h)
    PROVE  Step(h)
<1>1. h.id \in Id /\ h.node \in Node /\ h.op.kind = "begin" /\ h.id \notin DOMAIN txn
  BY HandlerParts DEF BeginTransaction, RequestsNamed
<1> DEFINE new == [node |-> h.node, state |-> "active", live |-> TRUE,
                   writes |-> {}, applied |-> 0]
<1>2. new \in Txn /\ new.node = h.node /\ new.applied = 0
  BY <1>1 DEF Txn
<1>3. txn' = [i \in DOMAIN txn \cup {h.id} |-> IF i = h.id THEN new ELSE txn[i]]
  BY DEF BeginTransaction
<1> HIDE DEF new
<1>4. DOMAIN txn' = DOMAIN txn \cup {h.id} /\ txn'[h.id] = new
      /\ \A i \in DOMAIN txn : txn'[i] = txn[i]
  BY <1>1, <1>3
<1>5. DOMAIN txn' \in SUBSET Id /\ txn' \in [DOMAIN txn' -> Txn]
  BY <1>1, <1>2, <1>3 DEF TypeOK
<1>9. OwnNames
  BY DEF RequestsNamed, OwnNames
<1>6. TxnsGoOn(h)
  <2>1. \A g \in running' : g.id # h.id
    BY <1>9, LeaveGoOn DEF BeginTransaction, Answer
  <2> QED
    BY <1>1, <1>2, <1>4, <2>1 DEF TxnsGoOn
<1>7. Serves(h)
  BY <1>9, AnswerServes, Verdicts DEF BeginTransaction
<1>8. UNCHANGED <<rows, schemas, recent>>
  BY DEF BeginTransaction
<1> QED
  BY <1>5, <1>6, <1>7, <1>8, SameData DEF Step, DataTyped

(* One transaction of a request other than begin becomes x. *)
LEMMA OneTxn ==
    ASSUME TypeOK, NEW h \in running, h.op.kind # "begin", NEW i \in DOMAIN txn, NEW x \in Txn,
           txn' = [txn EXCEPT ![i] = x], x.node = txn[i].node, x.live => txn[i].live,
           \/ x.applied = txn[i].applied
           \/ i = h.txn /\ CommitApply(h) /\ x.applied = txn[i].applied + 1
    PROVE  /\ DOMAIN txn' \in SUBSET Id /\ txn' \in [DOMAIN txn' -> Txn]
           /\ TxnsGoOn(h)
<1>1. txn \in [DOMAIN txn -> Txn] /\ DOMAIN txn \in SUBSET Id
  BY DEF TypeOK
<1>2. DOMAIN txn' = DOMAIN txn /\ txn'[i] = x /\ \A j \in DOMAIN txn : j # i => txn'[j] = txn[j]
  BY <1>1
<1>3. txn' \in [DOMAIN txn' -> Txn]
  BY <1>1
<1> QED
  BY <1>1, <1>2, <1>3 DEF TxnsGoOn

(* The transaction that a request found or whose commit is under way *)
LEMMA ItsTxn ==
    ASSUME TypeOK, HandlesFit, StepsFit, NEW h \in running,
           Found(h) \/ h.step \in {"checked", "preparing", "finalizing"}
    PROVE  h.txn \in DOMAIN txn /\ txn[h.txn] \in Txn
<1>1. h.step \in {"checked", "preparing", "finalizing"} => Pinned(h.op)
  BY DEF StepsFit, Pinned, FailsOver, AutoCommit, Sql
<1>2. h.txn \in DOMAIN txn
  BY <1>1 DEF HandlesFit, Found
<1> QED
  BY <1>2 DEF TypeOK

(* A put in a transaction adds to its writes. *)
LEMMA TxnPutStep ==
    ASSUME TypeOK, Served, NEW h \in running, TxnPut(h)
    PROVE  Step(h)
<1>1. h.txn \in DOMAIN txn /\ txn[h.txn] \in Txn
  BY ItsTxn DEF TxnPut, Served
<1>2. h.op.kind # "begin" /\ h.op.key \in Keys
  BY HandlerParts, OpKey DEF TxnPut
<1>3. OwnNames
  BY DEF Served, RequestsNamed, OwnNames
<1>4. CASE txn[h.txn].state = "active"
  <2> DEFINE x == [txn[h.txn] EXCEPT !.writes = txn[h.txn].writes \cup {h.op.key}]
  <2>1. txn' = [txn EXCEPT ![h.txn] = x]
    BY <1>1, <1>4 DEF TxnPut
  <2>2. x \in Txn /\ x.node = txn[h.txn].node /\ x.applied = txn[h.txn].applied
        /\ (x.live => txn[h.txn].live)
    BY <1>1, <1>2 DEF Txn
  <2> HIDE DEF x
  <2>3. DOMAIN txn' \in SUBSET Id /\ txn' \in [DOMAIN txn' -> Txn] /\ TxnsGoOn(h)
    BY <1>1, <1>2, <2>1, <2>2, OneTxn
  <2>4. Serves(h)
    BY <1>3, <1>4, AnswerServes, Verdicts DEF TxnPut
  <2>5. UNCHANGED <<rows, schemas, recent>>
    BY DEF TxnPut
  <2> QED
    BY <2>3, <2>4, <2>5, SameData DEF Step, DataTyped
<1>5. CASE txn[h.txn].state # "active"
  <2>1. Serves(h)
    BY <1>3, <1>5, AnswerServes, Verdicts DEF TxnPut
  <2> QED
    BY <1>2, <1>5, <2>1, QuietStep DEF TxnPut
<1> QED
  BY <1>4, <1>5

(* The handler of a commit at a later step *)
At(h, s) == [h EXCEPT !.step = s]
AtEnd(h, a) == [h EXCEPT !.step = "finalizing", !.result = a]

(* They are the same request. *)
LEMMA LaterSteps ==
    ASSUME TypeOK, NEW h \in running
    PROVE  /\ \A s \in Steps : At(h, s) \in Handler /\ Same(At(h, s), h)
           /\ \A a \in {"ok", "refused", "error"} : AtEnd(h, a) \in Handler /\ Same(AtEnd(h, a), h)
BY HandlerParts DEF At, AtEnd, Handler, Steps, Same

(* A commit that finds its transaction active goes on. *)
LEMMA CommitCheckStep ==
    ASSUME TypeOK, OwnNames, NEW h \in running, CommitCheck(h)
    PROVE  Step(h)
<1>1. CASE Goes(h, At(h, "checked"))
  <2>1. Serves(h)
    BY <1>1, LaterSteps, GoesServes DEF Steps
  <2> QED
    BY <2>1, QuietStep DEF CommitCheck
<1>2. CASE Answer(h, "refused")
  <2>1. Serves(h)
    BY <1>2, AnswerServes, Verdicts
  <2> QED
    BY <2>1, QuietStep DEF CommitCheck
<1> QED
  BY <1>1, <1>2 DEF CommitCheck, At

(* A step that changes the state of the transaction of h *)
LEMMA StateStep ==
    ASSUME TypeOK, Served, NEW h \in running, h.op.kind # "begin",
           Found(h) \/ h.step \in {"checked", "preparing", "finalizing"},
           NEW x \in Txn, txn' = [txn EXCEPT ![h.txn] = x], x.node = txn[h.txn].node,
           x.live => txn[h.txn].live, x.applied = txn[h.txn].applied,
           UNCHANGED <<rows, schemas, recent>>, Serves(h)
    PROVE  Step(h)
<1>1. h.txn \in DOMAIN txn
  BY ItsTxn DEF Served
<1>2. DOMAIN txn' \in SUBSET Id /\ txn' \in [DOMAIN txn' -> Txn] /\ TxnsGoOn(h)
  BY <1>1, OneTxn
<1> QED
  BY <1>2, SameData DEF Step, DataTyped

(* A commit sets the state of its transaction. *)
LEMMA CommitPrepareStep ==
    ASSUME TypeOK, Served, NEW h \in running, CommitPrepare(h)
    PROVE  Step(h)
<1>1. h.step = "checked" /\ h.op.kind # "begin" /\ OwnNames
  BY DEF Served, StepsFit, CommitPrepare, RequestsNamed, OwnNames
<1>2. txn[h.txn] \in Txn
  BY <1>1, ItsTxn DEF Served
<1> DEFINE x == [txn[h.txn] EXCEPT !.state = "preparing"]
<1>3. txn' = [txn EXCEPT ![h.txn] = x]
  BY DEF CommitPrepare
<1>4. x \in Txn /\ x.node = txn[h.txn].node /\ (x.live => txn[h.txn].live)
      /\ x.applied = txn[h.txn].applied
  BY <1>2 DEF Txn
<1> HIDE DEF x
<1>5. Goes(h, At(h, "preparing")) /\ UNCHANGED <<rows, schemas, recent>>
  BY DEF CommitPrepare, At
<1>6. Serves(h)
  BY <1>1, <1>5, LaterSteps, GoesServes DEF Steps
<1> QED
  BY <1>1, <1>3, <1>4, <1>5, <1>6, StateStep

(* The rows a transaction writes *)
LEMMA CommitWrites ==
    ASSUME TypeOK, NEW h \in running, txn[h.txn] \in Txn
    PROVE  LET new == [k \in txn[h.txn].writes |-> [v |-> h.by, w |-> h.by]] IN
           new \in Partial(Keys, Row) /\ DOMAIN new = txn[h.txn].writes
<1> DEFINE new == [k \in txn[h.txn].writes |-> [v |-> h.by, w |-> h.by]]
<1>1. [v |-> h.by, w |-> h.by] \in Row
  BY HandlerParts DEF Row, Values
<1>2. txn[h.txn].writes \in SUBSET Keys
  BY DEF Txn
<1>3. new \in [txn[h.txn].writes -> Row]
  BY <1>1
<1> HIDE DEF new
<1>4. new \in Partial(Keys, Row)
  BY <1>2, <1>3, PartialMade
<1> QED
  BY <1>3, <1>4 DEF new

(* A commit writes all the rows of its transaction, and counts it as applied. *)
LEMMA CommitApplyStep ==
    ASSUME TypeOK, Served, NEW h \in running, CommitApply(h)
    PROVE  /\ Step(h) /\ AtEnd(h, "ok") \in Handler /\ Same(AtEnd(h, "ok"), h)
           /\ h.txn \in DOMAIN txn /\ txn'[h.txn].applied = txn[h.txn].applied + 1
           /\ \/ /\ txn[h.txn].writes = {} /\ running' = Others(h) \cup {AtEnd(h, "ok")}
              \/ running' = Disturbed(h.node, Others(h)) \cup {AtEnd(h, "ok")}
           /\ UNCHANGED <<primary, program, call, serial, handle, faults, schemas>>
<1>1. h.step = "preparing" /\ h.op.kind # "begin" /\ OwnNames
  BY DEF Served, StepsFit, CommitApply, RequestsNamed, OwnNames
<1>2. h.txn \in DOMAIN txn /\ txn[h.txn] \in Txn
  BY <1>1, ItsTxn DEF Served
<1> DEFINE x == [txn[h.txn] EXCEPT !.state = "committed", !.applied = txn[h.txn].applied + 1]
           new == [k \in txn[h.txn].writes |-> [v |-> h.by, w |-> h.by]]
<1>3. txn' = [txn EXCEPT ![h.txn] = x]
  BY <1>2 DEF CommitApply, TypeOK
<1>4. x \in Txn /\ x.node = txn[h.txn].node /\ (x.live => txn[h.txn].live)
      /\ x.applied = txn[h.txn].applied + 1
  <2>1. txn[h.txn].applied + 1 \in Nat
    BY <1>2 DEF Txn
  <2> QED
    BY <1>2, <2>1 DEF Txn
<1>5. Write(h.node, new)
  BY DEF CommitApply
<1>6. new \in Partial(Keys, Row)
  BY <1>2, CommitWrites
<1> HIDE DEF x, new
<1>7. rows' \in [Node -> [Keys -> Row]] /\ recent' \in [Threads -> Keys \cup {None}]
  BY <1>5, <1>6, WriteTypes, HandlerParts
<1>8. DOMAIN txn' \in SUBSET Id /\ txn' \in [DOMAIN txn' -> Txn] /\ TxnsGoOn(h)
  BY <1>1, <1>2, <1>3, <1>4, OneTxn
<1>9. AtEnd(h, "ok") \in Handler /\ Same(AtEnd(h, "ok"), h)
  BY LaterSteps
<1>10. /\ \/ /\ txn[h.txn].writes = {} /\ running' = Others(h) \cup {AtEnd(h, "ok")}
          \/ running' = Disturbed(h.node, Others(h)) \cup {AtEnd(h, "ok")}
       /\ UNCHANGED <<primary, program, call, serial, handle, faults, schemas>>
  BY DEF CommitApply, AtEnd
<1>11. GoOn(h)
  BY <1>1, <1>9, <1>10, MoveGoOn, WriteGoOn
<1>12. Serves(h)
  BY <1>10, <1>11 DEF Serves
<1>13. schemas' \in SUBSET Node
  BY <1>10 DEF TypeOK
<1>14. txn'[h.txn].applied = txn[h.txn].applied + 1
  BY <1>2, <1>3, <1>4 DEF TypeOK
<1> QED
  BY <1>2, <1>7, <1>8, <1>9, <1>10, <1>12, <1>13, <1>14 DEF Step, DataTyped

(* A commit is refused before it has written. *)
LEMMA CommitRefusedStep ==
    ASSUME TypeOK, Served, NEW h \in running, CommitRefused(h)
    PROVE  Step(h)
<1>1. h.step = "preparing" /\ h.op.kind # "begin" /\ OwnNames
  BY DEF Served, StepsFit, CommitRefused, MayRefuse, RequestsNamed, OwnNames
<1>2. txn[h.txn] \in Txn
  BY <1>1, ItsTxn DEF Served
<1> DEFINE x == [txn[h.txn] EXCEPT !.state = "aborted"]
<1>3. txn' = [txn EXCEPT ![h.txn] = x]
  BY DEF CommitRefused
<1>4. x \in Txn /\ x.node = txn[h.txn].node /\ (x.live => txn[h.txn].live)
      /\ x.applied = txn[h.txn].applied
  BY <1>2 DEF Txn
<1> HIDE DEF x
<1>5. PICK a \in {"refused", "error"} : Goes(h, AtEnd(h, a))
  BY DEF CommitRefused, AtEnd
<1>6. Serves(h)
  BY <1>1, <1>5, LaterSteps, GoesServes
<1>7. UNCHANGED <<rows, schemas, recent>>
  BY DEF CommitRefused
<1> QED
  BY <1>1, <1>3, <1>4, <1>6, <1>7, StateStep

(* A commit takes its transaction off the active ones and answers. *)
LEMMA CommitFinalizeStep ==
    ASSUME TypeOK, Served, NEW h \in running, CommitFinalize(h)
    PROVE  Step(h)
<1>1. h.step = "finalizing" /\ h.op.kind # "begin" /\ OwnNames
  BY DEF Served, StepsFit, CommitFinalize, RequestsNamed, OwnNames
<1>2. txn[h.txn] \in Txn
  BY <1>1, ItsTxn DEF Served
<1> DEFINE x == [txn[h.txn] EXCEPT !.live = FALSE]
<1>3. txn' = [txn EXCEPT ![h.txn] = x]
  BY DEF CommitFinalize
<1>4. x \in Txn /\ x.node = txn[h.txn].node /\ ~x.live /\ x.applied = txn[h.txn].applied
  BY <1>2 DEF Txn
<1> HIDE DEF x
<1>5. h.result \in Answers
  BY HandlerParts, Verdicts
<1>6. Serves(h)
  BY <1>1, <1>5, AnswerServes DEF CommitFinalize
<1>7. UNCHANGED <<rows, schemas, recent>>
  BY DEF CommitFinalize
<1> QED
  BY <1>1, <1>3, <1>4, <1>6, <1>7, StateStep

(* An abort ends the transaction and answers. *)
LEMMA AbortStep ==
    ASSUME TypeOK, Served, NEW h \in running, AbortTransaction(h)
    PROVE  Step(h)
<1>1. h.op.kind # "begin" /\ OwnNames /\ UNCHANGED <<rows, schemas, recent>>
  BY DEF Served, AbortTransaction, RequestsNamed, OwnNames
<1>2. Serves(h)
  BY <1>1, AnswerServes, Verdicts DEF AbortTransaction
<1>3. CASE Found(h)
  <2>1. txn[h.txn] \in Txn
    BY <1>3, ItsTxn DEF Served
  <2> DEFINE x == [txn[h.txn] EXCEPT !.state = "aborted", !.live = FALSE]
  <2>2. txn' = [txn EXCEPT ![h.txn] = x]
    BY <1>3, <2>1 DEF AbortTransaction, TypeOK
  <2>3. x \in Txn /\ x.node = txn[h.txn].node /\ ~x.live /\ x.applied = txn[h.txn].applied
    BY <2>1 DEF Txn
  <2> HIDE DEF x
  <2> QED
    BY <1>1, <1>2, <1>3, <2>2, <2>3, StateStep
<1>4. CASE ~Found(h)
  BY <1>1, <1>2, <1>4, QuietStep DEF AbortTransaction
<1> QED
  BY <1>3, <1>4

(* Every step of a server goes on with what it was asked. *)
LEMMA ServerStepIsStep ==
    ASSUME TypeOK, Served, NEW h \in running, ServerStep(h)
    PROVE  Step(h)
<1>1. OwnNames /\ StepsFit /\ RequestsNamed
  BY DEF Served, RequestsNamed, OwnNames
<1>2. CASE PutRow(h)
  BY <1>1, <1>2, StorePutStep DEF PutRow
<1>3. CASE GetRow(h) \/ TableNotFound(h) \/ TxnNotFound(h)
  BY <1>1, <1>3, ReadStep
<1>4. CASE CreateTable(h) \/ InsertRow(h) \/ Scan(h)
  BY <1>1, <1>4, CreateTableStep, InsertRowStep, ScanStep
<1>5. CASE UpdateRow(h) \/ DeleteRow(h) \/ StatementDone(h)
  BY <1>1, <1>5, UpdateDeleteStep, StatementDoneStep
<1>6. CASE BeginTransaction(h) \/ TxnPut(h)
  BY <1>1, <1>6, BeginStep, TxnPutStep
<1>7. CASE CommitCheck(h) \/ CommitPrepare(h) \/ CommitApply(h)
  BY <1>1, <1>7, CommitCheckStep, CommitPrepareStep, CommitApplyStep
<1>8. CASE CommitRefused(h) \/ CommitFinalize(h) \/ AbortTransaction(h)
  BY <1>8, CommitRefusedStep, CommitFinalizeStep, AbortStep
<1> QED
  BY <1>2, <1>3, <1>4, <1>5, <1>6, <1>7, <1>8 DEF ServerStep

(* How the handler h may have moved on to g *)
Moved(h, g) ==
    \/ Scan(h) /\ g = Scanned(h)
    \/ h.step = "writing" /\ \E k \in DOMAIN h.todo : g = Wrote(h, k)
    \/ CommitCheck(h) /\ g = At(h, "checked")
    \/ CommitPrepare(h) /\ g = At(h, "preparing")
    \/ CommitApply(h) /\ g = AtEnd(h, "ok")
    \/ h.step = "preparing" /\ \E a \in {"refused", "error"} : g = AtEnd(h, a)

(* After an answer the request is gone. *)
LEMMA AnsweredIsGone ==
    ASSUME TypeOK, OwnNames, NEW h \in running, NEW a, NEW g \in running', g.id = h.id
    PROVE  ~Answer(h, a)
<1> SUFFICES ASSUME Answer(h, a) PROVE FALSE
  OBVIOUS
<1>1. running' = Others(h)
  BY DEF Answer
<1> QED
  BY <1>1 DEF Others, OwnNames

(* A handler that goes on is the only one with its name. *)
LEMMA OneMoves ==
    ASSUME TypeOK, OwnNames, NEW h \in running, NEW n, NEW f, NEW g \in running', g.id = h.id,
           running' = Others(h) \cup {f} \/ running' = Disturbed(n, Others(h)) \cup {f}
    PROVE  g = f
<1>1. Others(h) \subseteq running /\ running \in SUBSET Handler
  BY DEF Others, TypeOK
<1>2. g \notin Others(h)
  BY DEF Others, OwnNames
<1>3. g \notin Disturbed(n, Others(h))
  <2> SUFFICES ASSUME g \in Disturbed(n, Others(h)) PROVE FALSE
    OBVIOUS
  <2>1. PICK d \in Others(h) : g = Touched(n, d)
    BY DEF Disturbed, Touched
  <2>2. d.id = h.id /\ d \in running /\ d # h
    BY <1>1, <2>1, TouchedIsSame DEF Same, Others
  <2> QED
    BY <2>2 DEF OwnNames
<1> QED
  BY <1>2, <1>3

(* A request that is still there after a step of its handler has moved on. *)
LEMMA StepMoves ==
    ASSUME TypeOK, Served, NEW h \in running, ServerStep(h), NEW g \in running', g.id = h.id
    PROVE  Moved(h, g)
<1>1. OwnNames
  BY DEF Served, RequestsNamed, OwnNames
<1>2. \A a : ~Answer(h, a)
  BY <1>1, AnsweredIsGone
<1>3. ~StorePut(h)
  <2> SUFFICES ASSUME StorePut(h) PROVE FALSE
    OBVIOUS
  <2>1. running' = Disturbed(h.node, Others(h))
    BY DEF StorePut
  <2> QED
    BY <1>1, <2>1, DisturbGoOn
<1>4. \A f : Goes(h, f) => g = f
  <2> SUFFICES ASSUME NEW f, Goes(h, f) PROVE g = f
    OBVIOUS
  <2>1. running' = Others(h) \cup {f}
    BY DEF Goes
  <2> QED
    BY <1>1, <2>1, OneMoves
<1>5. ~(PutRow(h) \/ GetRow(h) \/ TableNotFound(h) \/ CreateTable(h) \/ InsertRow(h))
  BY <1>2, <1>3 DEF PutRow, GetRow, TableNotFound, CreateTable, InsertRow
<1>6. ~(StatementDone(h) \/ BeginTransaction(h) \/ TxnNotFound(h) \/ TxnPut(h))
  BY <1>2 DEF StatementDone, BeginTransaction, TxnNotFound, TxnPut
<1>7. ~(CommitFinalize(h) \/ AbortTransaction(h))
  BY <1>2 DEF CommitFinalize, AbortTransaction
<1>8. CASE Scan(h)
  BY <1>1, <1>4, <1>8, ScanStep DEF Moved
<1>9. CASE UpdateRow(h) \/ DeleteRow(h)
  <2>1. h.step = "writing" /\ \E k \in DOMAIN h.todo : \E row : WriteRow(h, k, row)
    BY <1>9 DEF UpdateRow, DeleteRow, NextRow
  <2>2. PICK k \in DOMAIN h.todo : \E row : WriteRow(h, k, row)
    BY <2>1
  <2>3. running' = Disturbed(h.node, Others(h)) \cup {Wrote(h, k)}
    <3>1. PICK row : WriteRow(h, k, row)
      BY <2>2
    <3> QED
      BY <3>1 DEF WriteRow, Wrote
  <2>4. g = Wrote(h, k)
    BY <1>1, <2>3, OneMoves
  <2> QED
    BY <2>1, <2>4 DEF Moved
<1>10. CASE CommitCheck(h)
  <2>1. Goes(h, At(h, "checked"))
    BY <1>2, <1>10 DEF CommitCheck, At
  <2> QED
    BY <1>4, <1>10, <2>1 DEF Moved
<1>11. CASE CommitPrepare(h)
  <2>1. Goes(h, At(h, "preparing"))
    BY <1>11 DEF CommitPrepare, At
  <2> QED
    BY <1>4, <1>11, <2>1 DEF Moved
<1>12. CASE CommitApply(h)
  <2>1. \/ running' = Others(h) \cup {AtEnd(h, "ok")}
        \/ running' = Disturbed(h.node, Others(h)) \cup {AtEnd(h, "ok")}
    BY <1>12, CommitApplyStep
  <2>2. g = AtEnd(h, "ok")
    BY <1>1, <2>1, OneMoves
  <2> QED
    BY <1>12, <2>2 DEF Moved
<1>13. CASE CommitRefused(h)
  <2>1. h.step = "preparing" /\ \E a \in {"refused", "error"} : Goes(h, AtEnd(h, a))
    BY <1>13 DEF CommitRefused, MayRefuse, AtEnd
  <2> QED
    BY <1>4, <2>1 DEF Moved
<1> QED
  BY <1>5, <1>6, <1>7, <1>8, <1>9, <1>10, <1>11, <1>12, <1>13 DEF ServerStep

(* A request whose handler has not moved *)
LEMMA OtherSame ==
    ASSUME TypeOK, NEW h \in running, GoOn(h), NEW g \in running', g.id # h.id
    PROVE  \E f \in running : Same(g, f) /\ SameWork(g, f) /\ f # h
BY DEF GoOn, Same

-----------------------------------------------------------------------------
(* Requests keep their names. *)

(* The call of t gets the answer it waits for. *)
GetsAnswer(h, t) ==
    /\ call[t] \in Call /\ t = h.by
    /\ \E a \in Answers : call'[t] = [call[t] EXCEPT !.phase = "answered", !.answer = a]
    /\ call'[t].phase = "answered" /\ call'[t].answer \in Answers
    /\ call'[t].id = call[t].id /\ call'[t].op = call[t].op
    /\ call'[t].node = call[t].node /\ call'[t].attempt = call[t].attempt
    /\ call'[t].asked = call[t].asked /\ call'[t].moved = call[t].moved
    /\ call[t].phase = "waiting" /\ call[t].id = h.id
    /\ \A g \in running' : g.id # h.id

(* A call goes on, or it gets the answer of the handler it waits for. *)
LEMMA CallGoesOn ==
    ASSUME TypeOK, NEW h \in running, Step(h), NEW t \in Threads
    PROVE  call'[t] = call[t] \/ GetsAnswer(h, t)
<1>1. CASE call' = call
  BY <1>1
<1>2. CASE /\ \E a \in Answers : Answered(h, a)
           /\ \A g \in running' : g.id # h.id
  <2>1. PICK a \in Answers : Answered(h, a)
    BY <1>2
  <2>2. CASE call'[t] = call[t]
    BY <2>2
  <2>3. CASE /\ t = h.by /\ call[t] \in Call /\ call[t].phase = "waiting" /\ call[t].id = h.id
             /\ call'[t] = [call[t] EXCEPT !.phase = "answered", !.answer = a]
    <3>1. \A c \in Call :
             LET d == [c EXCEPT !.phase = "answered", !.answer = a] IN
             /\ d.phase = "answered" /\ d.answer = a /\ d.id = c.id /\ d.op = c.op
             /\ d.node = c.node /\ d.attempt = c.attempt /\ d.asked = c.asked
             /\ d.moved = c.moved
      BY DEF Call
    <3> DEFINE d == [call[t] EXCEPT !.phase = "answered", !.answer = a]
    <3>2. /\ d.phase = "answered" /\ d.answer = a /\ d.id = call[t].id /\ d.op = call[t].op
          /\ d.node = call[t].node /\ d.attempt = call[t].attempt
          /\ d.asked = call[t].asked /\ d.moved = call[t].moved /\ call'[t] = d
      BY <2>3, <3>1
    <3>3. \E x \in Answers : call'[t] = [call[t] EXCEPT !.phase = "answered", !.answer = x]
      BY <3>2
    <3> HIDE DEF d
    <3> QED
      BY <1>2, <2>3, <3>2, <3>3 DEF GetsAnswer
  <2> QED
    BY <2>1, <2>2, <2>3 DEF Answered
<1> QED
  BY <1>1, <1>2 DEF Step, Serves

(* No step of a server gives a name twice. *)
LEMMA StepNames ==
    ASSUME TypeOK, Served, NEW h \in running, Step(h)
    PROVE  RequestsNamed'
<1>1. GoOn(h) /\ UNCHANGED serial /\ TxnsGoOn(h) /\ RequestsNamed
  BY DEF Step, Serves, Served
<1>2. \A g \in running' : \E f \in running : Same(g, f)
  BY <1>1 DEF GoOn
<1>3. (\A g \in running : g.id[1] = g.by /\ 1 <= g.id[2] /\ g.id[2] <= serial[g.by])'
  BY <1>1, <1>2 DEF RequestsNamed, Same
<1>4. (\A g, f \in running : g.id = f.id => g = f)'
  BY <1>1 DEF GoOn
<1>5. (\A i \in DOMAIN txn : i[2] <= serial[i[1]])'
  <2>1. \A i \in DOMAIN txn' : i \in DOMAIN txn \/ i = h.id
    BY <1>1 DEF TxnsGoOn
  <2>2. h.id[2] <= serial[h.id[1]]
    BY <1>1 DEF RequestsNamed
  <2> QED
    BY <1>1, <2>1, <2>2 DEF RequestsNamed
<1>6. (\A g \in running : g.op.kind = "begin" => g.id \notin DOMAIN txn)'
  <2> SUFFICES ASSUME NEW g \in running', g.op.kind = "begin" PROVE g.id \notin DOMAIN txn'
    OBVIOUS
  <2>1. g.id \notin DOMAIN txn
    BY <1>1, <1>2 DEF RequestsNamed, Same
  <2> QED
    BY <1>1, <2>1 DEF TxnsGoOn
<1>7. \A t \in Threads :
         \/ call'[t] = call[t]
         \/ /\ call'[t].phase = "answered" /\ call'[t].id = call[t].id
            /\ call[t].phase = "waiting" /\ call[t].id = h.id /\ \A g \in running' : g.id # h.id
  BY CallGoesOn DEF GetsAnswer
<1>8. (\A t \in Threads : Sent(t) => call[t].id = <<t, serial[t]>>)'
  BY <1>1, <1>7 DEF RequestsNamed, Sent
<1>9. (\A t \in Threads : call[t].phase = "answered" => \A g \in running : g.id # call[t].id)'
  BY <1>1, <1>2, <1>7 DEF RequestsNamed, Same
<1> QED
  BY <1>3, <1>4, <1>5, <1>6, <1>8, <1>9 DEF RequestsNamed

-----------------------------------------------------------------------------
(* Handles and calls fit the requests. *)

(* A begin that is answered leaves its transaction on its node; the others stay. *)
LEMMA StepHandles ==
    ASSUME TypeOK, Served, NEW h \in running, Step(h)
    PROVE  HandlesFit'
<1>1. /\ GoOn(h) /\ UNCHANGED <<serial, handle>> /\ TxnsGoOn(h)
      /\ RequestsNamed /\ HandlesFit /\ Awaited /\ StepsFit
  BY DEF Step, Serves, Served
<1>2. \A g \in running' : \E f \in running : Same(g, f)
  BY <1>1 DEF GoOn
<1>3. \A i \in DOMAIN txn : i \in DOMAIN txn' /\ txn'[i].node = txn[i].node
  BY <1>1 DEF TxnsGoOn
<1>4. (\A t \in Threads : handle[t].id # None =>
          /\ handle[t].id \in DOMAIN txn /\ handle[t].id[1] = t
          /\ txn[handle[t].id].node = handle[t].node)'
  BY <1>1, <1>3 DEF HandlesFit
<1>5. (\A t \in Threads : call[t].phase # "idle" /\ Pinned(call[t].op) =>
          handle[t].id # None /\ (Sent(t) => call[t].node = handle[t].node))'
  <2> SUFFICES ASSUME NEW t \in Threads, call'[t].phase # "idle", Pinned(call'[t].op)
               PROVE  /\ handle'[t].id # None
                      /\ Sent(t)' => call'[t].node = handle'[t].node
    OBVIOUS
  <2>1. call'[t] = call[t] \/ GetsAnswer(h, t)
    BY CallGoesOn
  <2>2. call[t].phase # "idle" /\ Pinned(call[t].op)
    BY <2>1 DEF GetsAnswer
  <2> QED
    BY <1>1, <2>1, <2>2 DEF HandlesFit, Sent, GetsAnswer
<1>6. (\A g \in running : Pinned(g.op) =>
          g.txn \in DOMAIN txn /\ g.txn[1] = g.by /\ g.txn[2] < g.id[2])'
  BY <1>1, <1>2, <1>3 DEF HandlesFit, Same, Pinned
<1>7. (\A t \in Threads : call[t].phase = "answered" /\ call[t].op.kind = "begin" =>
          /\ call[t].id \in DOMAIN txn /\ txn[call[t].id].node = call[t].node
          /\ txn[call[t].id].applied = 0)'
  <2> SUFFICES ASSUME NEW t \in Threads, call'[t].phase = "answered",
                      call'[t].op.kind = "begin"
               PROVE  /\ call'[t].id \in DOMAIN txn'
                      /\ txn'[call'[t].id].node = call'[t].node
                      /\ txn'[call'[t].id].applied = 0
    OBVIOUS
  <2>1. CASE call'[t] = call[t]
    <3> DEFINE i == call[t].id
    <3>1. i \in DOMAIN txn /\ txn[i].node = call[t].node /\ txn[i].applied = 0
          /\ i = <<t, serial[t]>>
      BY <1>1, <2>1 DEF HandlesFit, RequestsNamed, Sent
    <3>2. ~(i = h.txn /\ CommitApply(h))
      <4> SUFFICES ASSUME i = h.txn, CommitApply(h) PROVE FALSE
        OBVIOUS
      <4>1. Pinned(h.op)
        BY <1>1 DEF CommitApply, StepsFit, Pinned, FailsOver, AutoCommit, Sql
      <4>2. h.by = t /\ h.txn[2] < h.id[2] /\ h.txn[2] = serial[t]
        <5>1. h.txn[1] = h.by /\ h.txn[2] < h.id[2]
          BY <1>1, <4>1 DEF HandlesFit
        <5>2. h.txn = <<t, serial[t]>>
          BY <3>1
        <5> QED
          BY <5>1, <5>2
      <4>3. h.id[2] <= serial[t]
        BY <1>1, <4>2 DEF RequestsNamed
      <4>4. serial[t] \in Nat /\ h.id[2] \in Nat
        BY HandlerParts DEF TypeOK, Id
      <4> QED
        BY <4>2, <4>3, <4>4
    <3> QED
      BY <1>1, <1>3, <2>1, <3>1, <3>2 DEF TxnsGoOn
  <2>2. CASE call'[t] # call[t]
    <3>1. /\ call'[t].id = h.id /\ call'[t].op = call[t].op /\ call'[t].node = call[t].node
          /\ call[t].phase = "waiting" /\ call[t].id = h.id
      <4>1. GetsAnswer(h, t)
        BY <2>2, CallGoesOn
      <4> QED
        BY <4>1 DEF GetsAnswer
    <3>2. h.op = call[t].op /\ h.node = call[t].node
      BY <1>1, <3>1 DEF Awaited
    <3> QED
      BY <1>1, <3>1, <3>2 DEF TxnsGoOn
  <2> QED
    BY <2>1, <2>2
<1> QED
  BY <1>4, <1>5, <1>6, <1>7 DEF HandlesFit

(* A call still waits for what it asked. *)
LEMMA StepAwaited ==
    ASSUME TypeOK, Served, NEW h \in running, Step(h)
    PROVE  Awaited'
<1>1. GoOn(h) /\ UNCHANGED handle /\ Awaited
  BY DEF Step, Serves, Served
<1>2. \A g \in running' : \E f \in running : Same(g, f)
  BY <1>1 DEF GoOn
<1>3. \A t \in Threads : call'[t].phase = "waiting" => call'[t] = call[t]
  BY CallGoesOn DEF GetsAnswer
<1> QED
  BY <1>1, <1>2, <1>3 DEF Awaited, Same

(* A handler is only at the steps of what it was asked for. *)
LEMMA StepSteps ==
    ASSUME TypeOK, Served, NEW h \in running, ServerStep(h), Step(h)
    PROVE  StepsFit'
<1>1. GoOn(h) /\ StepsFit /\ OwnNames
  BY DEF Step, Serves, Served, RequestsNamed, OwnNames
<1> SUFFICES ASSUME NEW g \in running'
             PROVE  /\ g.step = "writing" => g.op.kind \in {"update", "delete"}
                    /\ g.step \in {"checked", "preparing", "finalizing"} => g.op.kind = "commit"
  BY DEF StepsFit
<1>2. CASE g.id # h.id
  <2>1. PICK f \in running : Same(g, f) /\ SameWork(g, f)
    BY <1>1, <1>2, OtherSame
  <2> QED
    BY <1>1, <2>1 DEF StepsFit, Same, SameWork
<1>3. CASE g.id = h.id
  <2>1. Moved(h, g)
    BY <1>3, StepMoves
  <2>2. h \in Handler
    BY HandlerParts
  <2>3. CASE Scan(h) /\ g = Scanned(h)
    <3>1. g.step = "writing" /\ g.op = h.op
      BY <2>2, <2>3 DEF Scanned, Handler
    <3> QED
      BY <2>3, <3>1 DEF Scan
  <2>4. CASE h.step = "writing" /\ \E k \in DOMAIN h.todo : g = Wrote(h, k)
    <3>1. g.step = h.step /\ g.op = h.op
      BY <2>2, <2>4 DEF Wrote, Handler
    <3> QED
      BY <1>1, <2>4, <3>1 DEF StepsFit
  <2>5. CASE \/ CommitCheck(h) /\ g = At(h, "checked")
             \/ CommitPrepare(h) /\ g = At(h, "preparing")
    <3>1. h.op.kind = "commit"
      BY <1>1, <2>5 DEF CommitCheck, CommitPrepare, StepsFit
    <3>2. g.step # "writing" /\ g.op = h.op
      BY <2>2, <2>5 DEF At, Handler
    <3> QED
      BY <3>1, <3>2
  <2>6. CASE \/ CommitApply(h) /\ g = AtEnd(h, "ok")
             \/ h.step = "preparing" /\ \E a \in {"refused", "error"} : g = AtEnd(h, a)
    <3>1. h.op.kind = "commit"
      BY <1>1, <2>6 DEF CommitApply, StepsFit
    <3>2. g.step # "writing" /\ g.op = h.op
      BY <2>2, <2>6 DEF AtEnd, Handler
    <3> QED
      BY <3>1, <3>2
  <2> QED
    BY <2>1, <2>3, <2>4, <2>5, <2>6 DEF Moved
<1> QED
  BY <1>2, <1>3

-----------------------------------------------------------------------------
(* The steps of the client keep requests, handles and calls together. *)

(* The call a thread makes *)
Made(op) == [phase |-> "calling", op |-> op, attempt |-> 0, node |-> 0, id |-> None,
             answer |-> None, asked |-> {}, moved |-> FALSE]

(* What a new call changes *)
LEMMA InvokeParts ==
    ASSUME TypeOK, NEW t \in Threads, Invoke(t)
    PROVE  /\ call[t].phase = "idle"
           /\ \E op \in Op :
                 /\ FailsOver(op) \/ handle[t].id # None
                 /\ call' = [call EXCEPT ![t] = Made(op)] /\ call'[t] = Made(op)
                 /\ handle'[t].ends = IF Ends(op) THEN handle[t].ends + 1 ELSE handle[t].ends
           /\ \A u \in Threads : u # t => call'[u] = call[u] /\ handle'[u] = handle[u]
           /\ handle'[t].id = handle[t].id /\ handle'[t].node = handle[t].node
           /\ handle'[t].told = handle[t].told
           /\ UNCHANGED <<primary, serial, recent, txn, rows, schemas, running, faults>>
<1>1. program[t] \in Seq(Op) /\ program[t] # <<>>
  BY DEF TypeOK, Invoke
<1>2. Head(program[t]) \in Op
  BY <1>1
<1> DEFINE op == Head(program[t])
<1>3. call' = [call EXCEPT ![t] = Made(op)] /\ (FailsOver(op) \/ handle[t].id # None)
      /\ call[t].phase = "idle"
  BY DEF Invoke, Made
<1>4. call \in [Threads -> Call \cup {Idle}] /\ handle \in [Threads -> Handle]
      /\ handle[t] \in Handle
  BY DEF TypeOK
<1>5. call'[t] = Made(op) /\ \A u \in Threads : u # t => call'[u] = call[u]
  BY <1>3, <1>4
<1> DEFINE h2 == [handle[t] EXCEPT !.ends = @ + 1]
<1>6. /\ h2.ends = handle[t].ends + 1 /\ h2.id = handle[t].id /\ h2.node = handle[t].node
      /\ h2.told = handle[t].told
  BY <1>4 DEF Handle
<1>7. handle' = IF Ends(op) THEN [handle EXCEPT ![t] = h2] ELSE handle
  BY <1>4 DEF Invoke
<1> HIDE DEF h2
<1>8. /\ handle'[t].id = handle[t].id /\ handle'[t].node = handle[t].node
      /\ handle'[t].told = handle[t].told
      /\ handle'[t].ends = IF Ends(op) THEN handle[t].ends + 1 ELSE handle[t].ends
      /\ \A u \in Threads : u # t => handle'[u] = handle[u]
  BY <1>4, <1>6, <1>7
<1>9. UNCHANGED <<primary, serial, recent, txn, rows, schemas, running, faults>>
  BY DEF Invoke
<1> QED
  BY <1>2, <1>3, <1>5, <1>8, <1>9

(* A new call of a thread has sent nothing yet. *)
LEMMA InvokeServed ==
    ASSUME TypeOK, Served, NEW t \in Threads, Invoke(t)
    PROVE  Served'
<1>1. /\ call[t].phase = "idle"
      /\ \A u \in Threads : u # t => call'[u] = call[u] /\ handle'[u] = handle[u]
      /\ handle'[t].id = handle[t].id /\ handle'[t].node = handle[t].node
      /\ UNCHANGED <<serial, txn, running>>
  BY InvokeParts
<1>2. PICK op \in Op : (FailsOver(op) \/ handle[t].id # None) /\ call'[t] = Made(op)
  BY InvokeParts
<1>3. call'[t].phase = "calling" /\ call'[t].op = op
  BY <1>2 DEF Made
<1>4. \A u \in Threads : handle'[u].id = handle[u].id /\ handle'[u].node = handle[u].node
  BY <1>1
<1>5. RequestsNamed'
  BY <1>1, <1>3 DEF Served, RequestsNamed, Sent
<1>6. (\A u \in Threads : call[u].phase # "idle" /\ Pinned(call[u].op) =>
          handle[u].id # None /\ (Sent(u) => call[u].node = handle[u].node))'
  BY <1>1, <1>2, <1>3, <1>4 DEF Served, HandlesFit, Sent, Pinned
<1>7. HandlesFit'
  BY <1>1, <1>3, <1>4, <1>6 DEF Served, HandlesFit
<1>8. Awaited'
  BY <1>1, <1>3, <1>4 DEF Served, Awaited
<1>9. StepsFit'
  BY <1>1 DEF Served, StepsFit
<1> QED
  BY <1>5, <1>7, <1>8, <1>9 DEF Served

(* The fields of the request that is sent *)
LEMMA RequestFields ==
    ASSUME TypeOK, NEW t \in Threads, call[t] \in Call
    PROVE  /\ Request(t).by = t /\ Request(t).id = <<t, serial[t] + 1>>
           /\ Request(t).node = Target(t) /\ Request(t).op = call[t].op
           /\ Request(t).step = "new" /\ Request(t).txn = handle[t].id
           /\ Waits(t).phase = "waiting" /\ Waits(t).id = <<t, serial[t] + 1>>
           /\ Waits(t).node = Target(t) /\ Waits(t).op = call[t].op
           /\ Waits(t).attempt = call[t].attempt /\ Waits(t).moved = call[t].moved
           /\ Waits(t).asked = call[t].asked \cup {Target(t)}
BY DEF Request, Waits, Call

(* A request is sent under a number that nothing has had before. *)
LEMMA SendServed ==
    ASSUME TypeOK, Served, NEW t \in Threads, Send(t)
    PROVE  Served'
<1>1. /\ call[t].phase = "calling" /\ call[t] \in Call
      /\ running' = running \cup {Request(t)}
      /\ call' = [call EXCEPT ![t] = Waits(t)]
      /\ serial' = [serial EXCEPT ![t] = serial[t] + 1]
      /\ UNCHANGED <<handle, txn>>
  BY SendParts
<1>2. /\ call'[t] = Waits(t) /\ serial'[t] = serial[t] + 1
      /\ \A u \in Threads : u # t => call'[u] = call[u] /\ serial'[u] = serial[u]
  BY <1>1 DEF TypeOK
<1>3. serial[t] \in Nat /\ \A u \in Threads :
         serial[u] \in Nat /\ serial'[u] \in Nat /\ serial[u] <= serial'[u]
  <2>1. \A u \in Threads : serial[u] \in Nat
    BY DEF TypeOK
  <2> SUFFICES ASSUME NEW u \in Threads PROVE serial'[u] \in Nat /\ serial[u] <= serial'[u]
    BY <2>1
  <2>2. serial'[u] = serial[u] \/ serial'[u] = serial[u] + 1
    BY <1>2
  <2> QED
    BY <2>1, <2>2
<1> DEFINE r == Request(t)
<1>4. /\ r.by = t /\ r.id = <<t, serial[t] + 1>> /\ r.node = Target(t) /\ r.op = call[t].op
      /\ r.step = "new" /\ r.txn = handle[t].id
      /\ Waits(t).phase = "waiting" /\ Waits(t).id = r.id
      /\ Waits(t).node = Target(t) /\ Waits(t).op = call[t].op
  BY <1>1, RequestFields
<1> HIDE DEF r
<1>5. running' = running \cup {r}
  BY <1>1 DEF r
<1>6. \A h \in running : h.id \in Id /\ h.by \in Threads /\ h.id[1] = h.by
                         /\ 1 <= h.id[2] /\ h.id[2] <= serial[h.by]
  BY HandlerParts DEF Served, RequestsNamed
<1>7. \A h \in running : h.id # r.id
  <2> SUFFICES ASSUME NEW h \in running, h.id = r.id PROVE FALSE
    OBVIOUS
  <2>1. h.by = t /\ h.id[2] = serial[t] + 1
    BY <1>4, <1>6
  <2> QED
    BY <1>3, <1>6, <2>1
<1>8. \A i \in DOMAIN txn : i \in Id /\ i[2] <= serial[i[1]]
  BY DEF Served, RequestsNamed, TypeOK
<1>9. r.id \notin DOMAIN txn
  BY <1>3, <1>4, <1>8
<1>10. (\A h \in running : h.id[1] = h.by /\ 1 <= h.id[2] /\ h.id[2] <= serial[h.by])'
  <2> SUFFICES ASSUME NEW h \in running'
               PROVE  h.id[1] = h.by /\ 1 <= h.id[2] /\ h.id[2] <= serial'[h.by]
    OBVIOUS
  <2>1. CASE h = r
    BY <1>2, <1>3, <1>4, <2>1
  <2>2. CASE h \in running
    <3>1. /\ h.id[2] \in Nat /\ serial[h.by] \in Nat /\ serial'[h.by] \in Nat
          /\ serial[h.by] <= serial'[h.by]
      BY <1>2, <1>3, <1>6, <2>2 DEF TypeOK, Id
    <3> QED
      BY <1>6, <2>2, <3>1
  <2> QED
    BY <1>5, <2>1, <2>2
<1>11. (\A i \in DOMAIN txn : i[2] <= serial[i[1]])'
  <2> SUFFICES ASSUME NEW i \in DOMAIN txn PROVE i[2] <= serial'[i[1]]
    BY <1>1
  <2>1. i[2] \in Nat /\ i[1] \in Threads /\ i[2] <= serial[i[1]]
    BY <1>8 DEF Id
  <2>2. /\ serial[i[1]] \in Nat /\ serial'[i[1]] \in Nat
        /\ serial[i[1]] <= serial'[i[1]]
    BY <1>3, <2>1
  <2> QED
    BY <2>1, <2>2
<1>12. RequestsNamed'
  <2>1. (\A g, h \in running : g.id = h.id => g = h)'
    BY <1>5, <1>7 DEF Served, RequestsNamed
  <2>2. (\A h \in running : h.op.kind = "begin" => h.id \notin DOMAIN txn)'
    BY <1>1, <1>5, <1>9 DEF Served, RequestsNamed
  <2>3. (\A u \in Threads : Sent(u) => call[u].id = <<u, serial[u]>>)'
    BY <1>2, <1>4 DEF Served, RequestsNamed, Sent
  <2>4. (\A u \in Threads : call[u].phase = "answered" => \A h \in running : h.id # call[u].id)'
    <3> SUFFICES ASSUME NEW u \in Threads, call'[u].phase = "answered"
                 PROVE  \A h \in running' : h.id # call'[u].id
      OBVIOUS
    <3>1. u # t /\ call'[u] = call[u]
      BY <1>2, <1>4
    <3>2. call[u].id = <<u, serial[u]>> /\ \A h \in running : h.id # call[u].id
      BY <3>1 DEF Served, RequestsNamed, Sent
    <3> QED
      BY <1>4, <1>5, <3>1, <3>2
  <2> QED
    BY <1>10, <1>11, <2>1, <2>2, <2>3, <2>4 DEF RequestsNamed
<1>13. HandlesFit'
  <2>1. (\A u \in Threads : handle[u].id # None =>
            /\ handle[u].id \in DOMAIN txn /\ handle[u].id[1] = u
            /\ txn[handle[u].id].node = handle[u].node)'
    BY <1>1 DEF Served, HandlesFit
  <2>2. Pinned(call[t].op) => handle[t].id # None /\ Target(t) = handle[t].node
    BY <1>1 DEF Served, HandlesFit, Target, Pinned
  <2>3. (\A u \in Threads : call[u].phase # "idle" /\ Pinned(call[u].op) =>
            handle[u].id # None /\ (Sent(u) => call[u].node = handle[u].node))'
    BY <1>1, <1>2, <1>4, <2>2 DEF Served, HandlesFit, Sent, Pinned
  <2>4. Pinned(r.op) => r.txn \in DOMAIN txn /\ r.txn[1] = r.by /\ r.txn[2] < r.id[2]
    <3> SUFFICES ASSUME Pinned(r.op)
                 PROVE  r.txn \in DOMAIN txn /\ r.txn[1] = r.by /\ r.txn[2] < r.id[2]
      OBVIOUS
    <3>1. r.txn \in DOMAIN txn /\ r.txn[1] = t
      BY <1>4, <2>2 DEF Served, HandlesFit
    <3>2. r.txn[2] \in Nat /\ r.txn[2] <= serial[t]
      BY <1>8, <3>1 DEF Id
    <3> QED
      BY <1>3, <1>4, <3>1, <3>2
  <2>5. (\A h \in running : Pinned(h.op) =>
            h.txn \in DOMAIN txn /\ h.txn[1] = h.by /\ h.txn[2] < h.id[2])'
    BY <1>1, <1>5, <2>4 DEF Served, HandlesFit, Pinned
  <2>6. (\A u \in Threads : call[u].phase = "answered" /\ call[u].op.kind = "begin" =>
            /\ call[u].id \in DOMAIN txn /\ txn[call[u].id].node = call[u].node
            /\ txn[call[u].id].applied = 0)'
    BY <1>1, <1>2, <1>4 DEF Served, HandlesFit
  <2> QED
    BY <2>1, <2>3, <2>5, <2>6 DEF HandlesFit
<1>14. Awaited'
  <2> SUFFICES ASSUME NEW u \in Threads, NEW h \in running', call'[u].phase = "waiting",
                      h.id = call'[u].id
               PROVE  h.op = call'[u].op /\ h.node = call'[u].node /\ h.txn = handle'[u].id
    BY DEF Awaited
  <2>1. CASE u = t
    BY <1>1, <1>2, <1>4, <1>5, <1>7, <2>1
  <2>2. CASE u # t
    <3>1. call'[u] = call[u] /\ call[u].id = <<u, serial[u]>>
      BY <1>2, <2>2 DEF Served, RequestsNamed, Sent
    <3>2. h \in running
      BY <1>4, <1>5, <2>2, <3>1
    <3> QED
      BY <1>1, <3>1, <3>2 DEF Served, Awaited
  <2> QED
    BY <2>1, <2>2
<1>15. StepsFit'
  BY <1>4, <1>5 DEF Served, StepsFit
<1> QED
  BY <1>12, <1>13, <1>14, <1>15 DEF Served

(* The handle of a thread whose begin is answered, and every other one *)
LEMMA ReceiveServed ==
    ASSUME TypeOK, Served, NEW t \in Threads, Receive(t)
    PROVE  Served'
<1>1. /\ call[t].phase = "answered" /\ call[t] \in Call /\ NewPrimary(t) \in Node
      /\ call' = [SawMove(t, NewPrimary(t)) EXCEPT ![t] = Idle]
      /\ \A u \in Threads : u # t => handle'[u] = handle[u]
      /\ call[t].op.kind = "begin" =>
            handle'[t] = [node |-> call[t].node, id |-> call[t].id, told |-> None, ends |-> 0]
      /\ call[t].op.kind # "begin" =>
            handle'[t].node = handle[t].node /\ handle'[t].id = handle[t].id
      /\ UNCHANGED <<serial, txn, running>>
  BY ReceiveParts
<1>2. call'[t] = Idle /\ call'[t].phase = "idle"
  BY <1>1, SawMoveParts DEF Idle
<1>3. \A u \in Threads : u # t => call'[u] = SawMove(t, NewPrimary(t))[u]
  BY <1>1, SawMoveParts
<1>4. \A u \in Threads : u # t =>
         /\ call'[u].phase = call[u].phase
         /\ call[u].phase # "idle" =>
               call'[u].id = call[u].id /\ call'[u].op = call[u].op /\ call'[u].node = call[u].node
  <2> SUFFICES ASSUME NEW u \in Threads, u # t
               PROVE  /\ call'[u].phase = call[u].phase
                      /\ call[u].phase # "idle" => /\ call'[u].id = call[u].id
                                                   /\ call'[u].op = call[u].op
                                                   /\ call'[u].node = call[u].node
    OBVIOUS
  <2>1. \/ call'[u] = call[u]
        \/ call[u] \in Call /\ call'[u] = [call[u] EXCEPT !.moved = TRUE]
    <3> DEFINE n == NewPrimary(t)
    <3>1. n \in Node /\ call'[u] = SawMove(t, n)[u]
      BY <1>1, <1>3
    <3> HIDE DEF n
    <3>2. \/ SawMove(t, n)[u] = call[u]
          \/ call[u] \in Call /\ SawMove(t, n)[u] = [call[u] EXCEPT !.moved = TRUE]
      BY <3>1, OneSawMove
    <3> QED
      BY <3>1, <3>2
  <2>2. \A c \in Call :
           LET d == [c EXCEPT !.moved = TRUE] IN
           d.phase = c.phase /\ d.id = c.id /\ d.op = c.op /\ d.node = c.node
    BY DEF Call
  <2> QED
    BY <2>1, <2>2
<1>5. RequestsNamed'
  BY <1>1, <1>2, <1>4 DEF Served, RequestsNamed, Sent
<1>6. HandlesFit'
  <2>1. (\A u \in Threads : handle[u].id # None =>
            /\ handle[u].id \in DOMAIN txn /\ handle[u].id[1] = u
            /\ txn[handle[u].id].node = handle[u].node)'
    <3> SUFFICES ASSUME NEW u \in Threads, handle'[u].id # None
                 PROVE  /\ handle'[u].id \in DOMAIN txn /\ handle'[u].id[1] = u
                        /\ txn[handle'[u].id].node = handle'[u].node
      BY <1>1
    <3>1. CASE u = t /\ call[t].op.kind = "begin"
      <4>1. /\ call[t].id \in DOMAIN txn /\ txn[call[t].id].node = call[t].node
            /\ call[t].id = <<t, serial[t]>>
        BY <1>1, <3>1 DEF Served, HandlesFit, RequestsNamed, Sent
      <4>2. handle'[u].id = call[t].id /\ handle'[u].node = call[t].node
        BY <1>1, <3>1
      <4> QED
        BY <3>1, <4>1, <4>2
    <3>2. CASE ~(u = t /\ call[t].op.kind = "begin")
      <4>1. handle'[u].id = handle[u].id /\ handle'[u].node = handle[u].node
        BY <1>1, <3>2
      <4> QED
        BY <4>1 DEF Served, HandlesFit
    <3> QED
      BY <3>1, <3>2
  <2>2. (\A u \in Threads : call[u].phase # "idle" /\ Pinned(call[u].op) =>
            handle[u].id # None /\ (Sent(u) => call[u].node = handle[u].node))'
    BY <1>1, <1>2, <1>4 DEF Served, HandlesFit, Sent, Pinned
  <2>3. (\A h \in running : Pinned(h.op) =>
            h.txn \in DOMAIN txn /\ h.txn[1] = h.by /\ h.txn[2] < h.id[2])'
    BY <1>1 DEF Served, HandlesFit, Pinned
  <2>4. (\A u \in Threads : call[u].phase = "answered" /\ call[u].op.kind = "begin" =>
            /\ call[u].id \in DOMAIN txn /\ txn[call[u].id].node = call[u].node
            /\ txn[call[u].id].applied = 0)'
    BY <1>1, <1>2, <1>4 DEF Served, HandlesFit
  <2> QED
    BY <2>1, <2>2, <2>3, <2>4 DEF HandlesFit
<1>7. Awaited'
  BY <1>1, <1>2, <1>4 DEF Served, Awaited
<1>8. StepsFit'
  BY <1>1 DEF Served, StepsFit
<1> QED
  BY <1>5, <1>6, <1>7, <1>8 DEF Served

(* The fields of the call after an attempt that failed *)
LEMMA FailedFields ==
    ASSUME TypeOK, NEW t \in Threads, call[t] \in Call
    PROVE  /\ Failed(t).op = call[t].op /\ Failed(t).moved = call[t].moved
           /\ Failed(t).asked = call[t].asked
           /\ Retries(t) => Failed(t).phase = "calling" /\ Failed(t).attempt = call[t].attempt + 1
           /\ ~Retries(t) => Failed(t).phase = "raised" /\ Failed(t).attempt = call[t].attempt
BY DEF Failed, Call

(* A broken connection takes a request away at most. *)
LEMMA LoseServed ==
    ASSUME TypeOK, Served, NEW t \in Threads, Lose(t)
    PROVE  Served'
<1>1. /\ Sent(t) /\ call[t] \in Call
      /\ call' = [call EXCEPT ![t] = Failed(t)]
      /\ running' \subseteq running
      /\ UNCHANGED <<serial, handle, txn>>
  BY LoseParts
<1>2. call'[t] = Failed(t) /\ \A u \in Threads : u # t => call'[u] = call[u]
  BY <1>1 DEF TypeOK
<1>3. call'[t].phase \in {"calling", "raised"} /\ call'[t].op = call[t].op
      /\ call[t].phase # "idle"
  BY <1>1, <1>2, FailedFields DEF Sent
<1>4. RequestsNamed'
  BY <1>1, <1>2, <1>3 DEF Served, RequestsNamed, Sent
<1>5. HandlesFit'
  BY <1>1, <1>2, <1>3 DEF Served, HandlesFit, Sent, Pinned
<1>6. Awaited'
  BY <1>1, <1>2, <1>3 DEF Served, Awaited
<1>7. StepsFit'
  BY <1>1 DEF Served, StepsFit
<1> QED
  BY <1>4, <1>5, <1>6, <1>7 DEF Served

(* A call that is raised is over. *)
LEMMA RaiseServed ==
    ASSUME TypeOK, Served, NEW t \in Threads, Raise(t)
    PROVE  Served'
<1>1. /\ call'[t].phase = "idle" /\ \A u \in Threads : u # t => call'[u] = call[u]
      /\ UNCHANGED <<serial, handle, txn, running>>
  BY DEF Raise, TypeOK, Idle
<1>2. RequestsNamed'
  BY <1>1 DEF Served, RequestsNamed, Sent
<1>3. HandlesFit'
  BY <1>1 DEF Served, HandlesFit, Sent, Pinned
<1>4. Awaited'
  BY <1>1 DEF Served, Awaited
<1>5. StepsFit'
  BY <1>1 DEF Served, StepsFit
<1> QED
  BY <1>2, <1>3, <1>4, <1>5 DEF Served

(* A restart takes requests away, and transactions stay where they were. *)
LEMMA RestartParts ==
    ASSUME TypeOK, NEW n \in Node, Restart(n)
    PROVE  /\ running' \subseteq running /\ DOMAIN txn' = DOMAIN txn
           /\ \A i \in DOMAIN txn :
                 /\ txn'[i].node = txn[i].node /\ txn'[i].applied = txn[i].applied
                 /\ txn'[i].live => txn[i].live
           /\ UNCHANGED <<primary, program, call, serial, handle, recent, rows>>
<1>1. txn \in [DOMAIN txn -> Txn]
  BY DEF TypeOK
<1>2. \A x \in Txn :
         LET y == [x EXCEPT !.live = FALSE,
                      !.state = IF x.state = "committed" THEN "committed" ELSE "lost"] IN
         y.node = x.node /\ y.applied = x.applied /\ ~y.live
  BY DEF Txn
<1>3. DOMAIN txn' = DOMAIN txn
  BY DEF Restart
<1>4. \A i \in DOMAIN txn :
         \/ txn'[i] = txn[i]
         \/ txn'[i] = [txn[i] EXCEPT !.live = FALSE,
               !.state = IF txn[i].state = "committed" THEN "committed" ELSE "lost"]
  BY DEF Restart
<1>5. \A i \in DOMAIN txn : txn[i] \in Txn
  BY <1>1
<1>6. \A i \in DOMAIN txn :
         /\ txn'[i].node = txn[i].node /\ txn'[i].applied = txn[i].applied
         /\ txn'[i].live => txn[i].live
  BY <1>2, <1>4, <1>5
<1>7. running' \subseteq running
  BY DEF Restart
<1>8. UNCHANGED <<primary, program, call, serial, handle, recent, rows>>
  BY DEF Restart, clientVars
<1> QED
  BY <1>3, <1>6, <1>7, <1>8

(* The requests that survive a restart are still served as before. *)
LEMMA RestartServed ==
    ASSUME TypeOK, Served, NEW n \in Node, Restart(n)
    PROVE  Served'
<1>1. /\ running' \subseteq running /\ DOMAIN txn' = DOMAIN txn
      /\ \A i \in DOMAIN txn : txn'[i].node = txn[i].node /\ txn'[i].applied = txn[i].applied
      /\ UNCHANGED <<call, serial, handle>>
  BY RestartParts
<1>2. RequestsNamed'
  BY <1>1 DEF Served, RequestsNamed, Sent
<1>3. HandlesFit'
  BY <1>1 DEF Served, HandlesFit, Sent, Pinned
<1>4. Awaited'
  BY <1>1 DEF Served, Awaited
<1>5. StepsFit'
  BY <1>1 DEF Served, StepsFit
<1> QED
  BY <1>2, <1>3, <1>4, <1>5 DEF Served

(* A step that changes nothing keeps it all. *)
LEMMA StutterServed ==
    ASSUME TypeOK, Served, UNCHANGED vars
    PROVE  TypeOK' /\ Served'
<1>1. TypeOK'
  BY DEF TypeOK, vars, clientVars
<1>2. UNCHANGED <<call, serial, handle, txn, running>>
  BY DEF vars, clientVars
<1>3. RequestsNamed' /\ HandlesFit' /\ Awaited' /\ StepsFit'
  BY <1>2 DEF Served, RequestsNamed, HandlesFit, Awaited, StepsFit, Sent, Pinned
<1> QED
  BY <1>1, <1>3 DEF Served

-----------------------------------------------------------------------------
(* A call that fails over asks every node. *)

(* Counting N nodes on from any of them reaches them all. *)
LEMMA AllNodes ==
    ASSUME NEW p \in Node
    PROVE  {(p + i) % N : i \in 0 .. N - 1} = Node
<1>1. N \in Nat \ {0} /\ p \in 0 .. N - 1
  BY ClusterAssumption DEF Node
<1>2. \A i \in 0 .. N - 1 : (p + i) % N \in Node
  BY <1>1 DEF Node
<1>3. \A m \in Node : \E i \in 0 .. N - 1 : (p + i) % N = m
  <2> SUFFICES ASSUME NEW m \in Node PROVE \E i \in 0 .. N - 1 : (p + i) % N = m
    OBVIOUS
  <2>1. m \in 0 .. N - 1
    BY DEF Node
  <2>2. CASE m >= p
    <3>1. m - p \in 0 .. N - 1 /\ (p + (m - p)) % N = m
      BY <1>1, <2>1, <2>2
    <3> QED
      BY <3>1
  <2>3. CASE m < p
    <3>1. m + N - p \in 0 .. N - 1 /\ p + (m + N - p) = m + N /\ (m + N) % N = m
      BY <1>1, <2>1, <2>3
    <3> QED
      BY <3>1
  <2> QED
    BY <1>1, <2>1, <2>2, <2>3
<1> QED
  BY <1>2, <1>3

(* The nodes asked in k attempts, starting with node p *)
InTurn(p, k) == {(p + i) % N : i \in 0 .. k - 1}

(* One attempt more asks one node more. *)
LEMMA InTurnGrows ==
    ASSUME NEW p \in Node, NEW k \in Nat
    PROVE  InTurn(p, k + 1) = InTurn(p, k) \cup {(p + k) % N}
<1>1. 0 .. (k + 1) - 1 = (0 .. k - 1) \cup {k}
  OBVIOUS
<1> QED
  BY <1>1 DEF InTurn

(* What AskedInTurn says of a call c when p is the primary *)
InOrder(c, p) ==
    FailsOver(c.op) /\ ~c.moved =>
        /\ c.attempt < N
        /\ c.phase = "calling" => c.asked = InTurn(p, c.attempt)
        /\ c.phase \in {"waiting", "answered"} => c.asked = InTurn(p, c.attempt + 1)
        /\ c.phase = "raised" => c.asked = Node

(* AskedInTurn says so of every call. *)
LEMMA AskedInOrder ==
    ASSUME NEW c \in Call, NEW p
    PROVE  InOrder(c, p) <=>
              (FailsOver(c.op) /\ ~c.moved =>
                /\ c.attempt < N
                /\ c.phase = "calling" => c.asked = {(p + i) % N : i \in 0 .. c.attempt - 1}
                /\ c.phase \in {"waiting", "answered"} =>
                      c.asked = {(p + i) % N : i \in 0 .. c.attempt}
                /\ c.phase = "raised" => c.asked = Node)
<1>1. c.attempt \in Nat
  BY DEF Call
<1>2. 0 .. (c.attempt + 1) - 1 = 0 .. c.attempt
  BY <1>1
<1> QED
  BY <1>2 DEF InOrder, InTurn

(* The calls keep to their turns. *)
LEMMA ClientKeepsTurns ==
    ASSUME TypeOK, TypeOK', AskedInTurn, NEW t \in Threads, ClientStep(t)
    PROVE  AskedInTurn'
<1>1. \A u \in Threads : call[u].phase # "idle" => InOrder(call[u], primary)
  BY CallCases, AskedInOrder DEF AskedInTurn, Sent
<1> SUFFICES ASSUME NEW u \in Threads, call'[u].phase # "idle"
             PROVE  InOrder(call'[u], primary')
  <2>1. \A v \in Threads : call'[v].phase # "idle" => call'[v] \in Call
    BY DEF TypeOK, Idle
  <2> QED
    BY <2>1, AskedInOrder DEF AskedInTurn, Sent
<1>2. N \in Nat \ {0} /\ primary \in Node
  BY ClusterAssumption DEF TypeOK
<1>3. CASE Invoke(t)
  <2>1. UNCHANGED primary /\ \A v \in Threads : v # t => call'[v] = call[v]
    BY <1>3, InvokeParts
  <2>2. PICK op \in Op : call'[t] = Made(op)
    BY <1>3, InvokeParts
  <2>3. InTurn(primary, 0) = {}
    BY DEF InTurn
  <2>4. InOrder(Made(op), primary)
    BY <1>2, <2>3 DEF InOrder, Made
  <2> QED
    BY <1>1, <2>1, <2>2, <2>4
<1>4. CASE Send(t)
  <2>1. /\ call[t].phase = "calling" /\ call[t] \in Call /\ call' = [call EXCEPT ![t] = Waits(t)]
        /\ UNCHANGED primary
    BY <1>4, SendParts
  <2>2. call'[t] = Waits(t) /\ \A v \in Threads : v # t => call'[v] = call[v]
    BY <2>1 DEF TypeOK
  <2>3. /\ Waits(t).phase = "waiting" /\ Waits(t).op = call[t].op
        /\ Waits(t).attempt = call[t].attempt /\ Waits(t).moved = call[t].moved
        /\ Waits(t).asked = call[t].asked \cup {Target(t)}
    BY <2>1, RequestFields
  <2>4. call[t].attempt \in Nat
    BY <2>1 DEF Call
  <2>5. FailsOver(call[t].op) => Target(t) = (primary + call[t].attempt) % N
    BY DEF Target
  <2>6. InOrder(Waits(t), primary)
    BY <1>1, <1>2, <2>1, <2>3, <2>4, <2>5, InTurnGrows DEF InOrder
  <2> QED
    BY <1>1, <2>1, <2>2, <2>6
<1>5. CASE Receive(t)
  <2> DEFINE n == NewPrimary(t)
  <2>1. /\ n \in Node /\ primary' = n /\ call' = [SawMove(t, n) EXCEPT ![t] = Idle]
        /\ call[t] \in Call
    BY <1>5, ReceiveParts
  <2> HIDE DEF n
  <2>2. u # t /\ call'[u] = SawMove(t, n)[u]
    BY <2>1, SawMoveParts DEF Idle
  <2>3. \/ call'[u] = call[u]
        \/ /\ call[u] \in Call /\ call'[u] = [call[u] EXCEPT !.moved = TRUE]
    <3>1. \/ SawMove(t, n)[u] = call[u]
          \/ call[u] \in Call /\ SawMove(t, n)[u] = [call[u] EXCEPT !.moved = TRUE]
      <4>1. n \in Node
        BY <2>1
      <4> QED
        BY <4>1, OneSawMove
    <3> QED
      BY <2>2, <3>1
  <2>4. n # primary => (call[u].phase \in {"calling", "waiting", "answered"} => call'[u].moved)
    <3>1. n # primary => \A v \in Threads \ {t} :
             call[v].phase \in {"calling", "waiting", "answered"} => SawMove(t, n)[v].moved
      BY <2>1, SawMoveParts
    <3> QED
      BY <2>2, <3>1
  <2>5. \A c \in Call : [c EXCEPT !.moved = TRUE].moved = TRUE
    BY DEF Call
  <2>6. CASE call'[u] = call[u]
    <3>1. call[u] \in Call /\ call[u].phase \in Phases
      BY <2>6, CallCases DEF Call
    <3>2. CASE n = primary
      BY <1>1, <2>1, <2>6, <3>2
    <3>3. CASE call[u].phase = "raised"
      BY <1>1, <2>6, <3>3 DEF InOrder
    <3>4. CASE n # primary /\ call[u].phase # "raised"
      BY <2>4, <3>1, <3>4 DEF InOrder, Phases
    <3> QED
      BY <3>2, <3>3, <3>4
  <2>7. CASE call[u] \in Call /\ call'[u] = [call[u] EXCEPT !.moved = TRUE]
    BY <2>5, <2>7 DEF InOrder
  <2> QED
    BY <2>3, <2>6, <2>7
<1>6. CASE Lose(t)
  <2>1. /\ Sent(t) /\ call[t] \in Call /\ call' = [call EXCEPT ![t] = Failed(t)]
        /\ UNCHANGED primary
    BY <1>6, LoseParts
  <2>2. call'[t] = Failed(t) /\ \A v \in Threads : v # t => call'[v] = call[v]
    BY <2>1 DEF TypeOK
  <2>3. InOrder(call[t], primary) /\ call[t].phase \in {"waiting", "answered"}
    BY <1>1, <2>1 DEF Sent
  <2>4. call[t].attempt \in Nat
    BY <2>1 DEF Call
  <2>5. CASE Retries(t)
    <3>1. /\ Failed(t).op = call[t].op /\ Failed(t).moved = call[t].moved
          /\ Failed(t).asked = call[t].asked /\ Failed(t).phase = "calling"
          /\ Failed(t).attempt = call[t].attempt + 1 /\ call[t].attempt + 1 < N
      BY <2>1, <2>5, FailedFields DEF Retries
    <3>2. InOrder(Failed(t), primary)
      BY <2>3, <3>1 DEF InOrder
    <3> QED
      BY <1>1, <2>1, <2>2, <3>2
  <2>6. CASE ~Retries(t)
    <3>1. /\ Failed(t).op = call[t].op /\ Failed(t).moved = call[t].moved
          /\ Failed(t).asked = call[t].asked /\ Failed(t).phase = "raised"
          /\ Failed(t).attempt = call[t].attempt
      BY <2>1, <2>6, FailedFields
    <3>2. FailsOver(call[t].op) /\ ~call[t].moved => call[t].asked = Node /\ call[t].attempt < N
      <4> SUFFICES ASSUME FailsOver(call[t].op), ~call[t].moved
                   PROVE  call[t].asked = Node /\ call[t].attempt < N
        OBVIOUS
      <4>1. call[t].attempt < N /\ call[t].asked = InTurn(primary, call[t].attempt + 1)
        BY <2>3 DEF InOrder
      <4>2. ~(call[t].attempt + 1 < N)
        BY <2>6 DEF Retries
      <4>3. call[t].attempt + 1 = N
        BY <1>2, <2>4, <4>1, <4>2
      <4> QED
        BY <1>2, <4>1, <4>3, AllNodes DEF InTurn
    <3>3. InOrder(Failed(t), primary)
      BY <3>1, <3>2 DEF InOrder
    <3> QED
      BY <1>1, <2>1, <2>2, <3>3
  <2> QED
    BY <2>5, <2>6
<1>7. CASE Raise(t)
  <2>1. call'[t] = Idle /\ (\A v \in Threads : v # t => call'[v] = call[v]) /\ UNCHANGED primary
    BY <1>7 DEF Raise, TypeOK
  <2> QED
    BY <1>1, <2>1 DEF Idle
<1> QED
  BY <1>3, <1>4, <1>5, <1>6, <1>7 DEF ClientStep

(* A server does not choose nodes. *)
LEMMA StepKeepsTurns ==
    ASSUME TypeOK, AskedInTurn, NEW h \in running, Step(h)
    PROVE  AskedInTurn'
<1>1. UNCHANGED primary
  BY DEF Step, Serves
<1>2. \A t \in Threads :
         \/ call'[t] = call[t]
         \/ /\ call'[t].op = call[t].op /\ call'[t].attempt = call[t].attempt
            /\ call'[t].asked = call[t].asked /\ call'[t].moved = call[t].moved
            /\ call[t].phase = "waiting" /\ call'[t].phase = "answered"
  BY CallGoesOn DEF GetsAnswer
<1> QED
  BY <1>1, <1>2 DEF AskedInTurn, Sent

-----------------------------------------------------------------------------
(* A thread reads its own put. *)

Reads == RecentIsThere /\ ReadsOwnPut

(* A step of a server writes rows on its own node, or none. *)
LEMMA StepWrites ==
    ASSUME TypeOK, Served, NEW h \in running, ServerStep(h)
    PROVE  \/ UNCHANGED <<rows, recent>>
           \/ h.op.kind # "get" /\ \E new \in Partial(Keys, Row) : Write(h.node, new)
<1>1. CASE StorePut(h) /\ h.op.kind \in {"put", "insert"}
  <2>1. h.by \in Threads /\ h.op.key \in Keys
    BY <1>1, HandlerParts, OpKey
  <2> DEFINE new == [k \in {h.op.key} |-> [v |-> h.by, w |-> h.by]]
  <2>2. [v |-> h.by, w |-> h.by] \in Row
    BY <2>1 DEF Row, Values
  <2>3. {h.op.key} \in SUBSET Keys /\ new \in [{h.op.key} -> Row]
    BY <2>1, <2>2
  <2>4. Write(h.node, new)
    BY <1>1 DEF StorePut
  <2> HIDE DEF new
  <2> QED
    BY <1>1, <2>3, <2>4, PartialMade
<1>2. CASE UpdateRow(h) \/ DeleteRow(h)
  <2>1. PICK k \in DOMAIN h.todo, row \in Row : WriteRow(h, k, row)
    BY <1>2, ImagesAreRows DEF UpdateRow, DeleteRow, NextRow
  <2>2. k \in Keys
    BY HandlerParts, PartialParts
  <2> DEFINE new == [j \in {k} |-> row]
  <2>3. {k} \in SUBSET Keys /\ new \in [{k} -> Row]
    BY <2>2
  <2>4. Write(h.node, new)
    BY <2>1 DEF WriteRow
  <2>5. h.op.kind # "get"
    BY <1>2 DEF UpdateRow, DeleteRow
  <2> HIDE DEF new
  <2> QED
    BY <2>3, <2>4, <2>5, PartialMade
<1>3. CASE CommitApply(h)
  <2>1. txn[h.txn] \in Txn /\ h.op.kind # "get"
    BY <1>3, ItsTxn DEF CommitApply, Served, StepsFit
  <2> DEFINE new == [k \in txn[h.txn].writes |-> [v |-> h.by, w |-> h.by]]
  <2>2. Write(h.node, new)
    BY <1>3 DEF CommitApply
  <2>3. new \in Partial(Keys, Row)
    BY <2>1, CommitWrites
  <2> HIDE DEF new
  <2> QED
    BY <2>1, <2>2, <2>3
<1>4. CASE UNCHANGED <<rows, recent>>
  BY <1>4
<1>5. PutRow(h) \/ InsertRow(h) =>
         (StorePut(h) /\ h.op.kind \in {"put", "insert"}) \/ UNCHANGED <<rows, recent>>
  BY DEF PutRow, InsertRow
<1>6. GetRow(h) \/ TableNotFound(h) \/ CreateTable(h) \/ Scan(h) \/ StatementDone(h)
        => UNCHANGED <<rows, recent>>
  BY DEF GetRow, TableNotFound, CreateTable, Scan, StatementDone
<1>7. BeginTransaction(h) \/ TxnNotFound(h) \/ TxnPut(h) \/ CommitCheck(h) \/ CommitPrepare(h)
        => UNCHANGED <<rows, recent>>
  BY DEF BeginTransaction, TxnNotFound, TxnPut, CommitCheck, CommitPrepare
<1>8. CommitRefused(h) \/ CommitFinalize(h) \/ AbortTransaction(h) => UNCHANGED <<rows, recent>>
  BY DEF CommitRefused, CommitFinalize, AbortTransaction
<1> QED
  BY <1>1, <1>2, <1>3, <1>4, <1>5, <1>6, <1>7, <1>8 DEF ServerStep

(* A put that must be seen is not overwritten. *)
LEMMA RecentStays ==
    ASSUME TypeOK, Served, Reads, NEW h \in running, ServerStep(h), NEW t \in Threads,
           recent'[t] # None
    PROVE  recent'[t] = recent[t] /\ rows'[primary][recent[t]].v = t
<1>1. recent[t] # None => rows[primary][recent[t]].v = t
  BY DEF Reads, RecentIsThere
<1>2. CASE UNCHANGED <<rows, recent>>
  BY <1>1, <1>2
<1>3. CASE \E new \in Partial(Keys, Row) : Write(h.node, new)
  <2>1. PICK new \in Partial(Keys, Row) : Write(h.node, new)
    BY <1>3
  <2>2. h.node \in Node /\ primary \in Node
    BY HandlerParts DEF TypeOK
  <2>3. /\ \A m \in Node : m # h.node => rows'[m] = rows[m]
        /\ \A k \in Keys :
              rows'[h.node][k] = IF k \in DOMAIN new THEN new[k] ELSE rows[h.node][k]
        /\ recent'[t] = IF recent[t] \in DOMAIN new /\ new[recent[t]].v # t THEN None
                        ELSE recent[t]
    BY <2>1, <2>2, WriteTypes
  <2>4. recent'[t] = recent[t] /\ recent[t] \in Keys
    BY <2>3 DEF TypeOK
  <2> QED
    BY <1>1, <2>2, <2>3, <2>4
<1> QED
  BY <1>2, <1>3, StepWrites

(* No step of a server takes the put from under a thread that must see it. *)
LEMMA StepReads ==
    ASSUME TypeOK, Served, Reads, NEW h \in running, ServerStep(h), Step(h)
    PROVE  Reads'
<1>1. UNCHANGED <<primary, handle>> /\ Awaited
  BY DEF Step, Serves, Served
<1> SUFFICES ASSUME NEW t \in Threads, recent'[t] # None
             PROVE  /\ rows'[primary][recent'[t]].v = t
                    /\ Sent(t)' /\ FailsOver(call'[t].op) /\ call'[t].attempt = 0 =>
                          call'[t].node = primary
                    /\ call'[t].phase = "answered" /\ call'[t].op.kind = "get"
                          /\ call'[t].attempt = 0 /\ recent'[t] = call'[t].op.key =>
                          call'[t].answer = t
  <2>1. \A t \in Threads : call'[t].phase = "answered" /\ call'[t].op.kind = "get" =>
           call'[t].op.key # None
    <3> SUFFICES ASSUME NEW t \in Threads, call'[t].phase = "answered", call'[t].op.kind = "get"
                 PROVE  call'[t].op.key # None
      OBVIOUS
    <3>1. call'[t] \in Call
      <4>1. TypeOK'
        BY StepTypes
      <4> QED
        BY <4>1 DEF TypeOK, Idle
    <3>2. call'[t].op.key \in Keys
      BY <3>1, OpKey DEF Call
    <3> QED
      BY <3>2, ClusterAssumption
  <2> QED
    BY <1>1, <2>1 DEF Reads, RecentIsThere, ReadsOwnPut
<1>2. recent'[t] = recent[t] /\ rows'[primary][recent[t]].v = t /\ recent[t] # None
  BY RecentStays
<1>3. /\ rows[primary][recent[t]].v = t
      /\ Sent(t) /\ FailsOver(call[t].op) /\ call[t].attempt = 0 => call[t].node = primary
  BY <1>2 DEF Reads, RecentIsThere
<1>4. CASE call'[t] = call[t]
  BY <1>2, <1>3, <1>4 DEF Reads, ReadsOwnPut, Sent
<1>5. CASE call'[t] # call[t]
  <2>1. GetsAnswer(h, t)
    BY <1>5, CallGoesOn
  <2>2. /\ call[t].phase = "waiting" /\ call[t].id = h.id /\ call'[t].op = call[t].op
        /\ call'[t].node = call[t].node /\ call'[t].attempt = call[t].attempt
        /\ t = h.by
    BY <2>1 DEF GetsAnswer
  <2>3. h.op = call[t].op /\ h.node = call[t].node
    BY <1>1, <2>2 DEF Awaited
  <2>4. ASSUME call'[t].op.kind = "get", call'[t].attempt = 0, recent'[t] = call'[t].op.key
        PROVE  call'[t].answer = t
    <3>1. h.op.kind = "get" /\ h.op.key = recent[t]
      BY <1>2, <2>2, <2>3, <2>4
    <3>2. GetRow(h)
      <4>1. StepsFit
        BY DEF Served
      <4>2. ~(PutRow(h) \/ TableNotFound(h) \/ CreateTable(h) \/ InsertRow(h) \/ Scan(h))
        BY <3>1 DEF PutRow, TableNotFound, CreateTable, InsertRow, Scan, Sql
      <4>3. ~(UpdateRow(h) \/ DeleteRow(h) \/ StatementDone(h) \/ BeginTransaction(h))
        BY <3>1, <4>1 DEF UpdateRow, DeleteRow, StatementDone, BeginTransaction, StepsFit
      <4>4. ~(TxnNotFound(h) \/ TxnPut(h) \/ CommitCheck(h) \/ CommitPrepare(h))
        BY <3>1, <4>1 DEF TxnNotFound, TxnPut, CommitCheck, CommitPrepare, StepsFit
      <4>5. ~(CommitApply(h) \/ CommitRefused(h) \/ CommitFinalize(h) \/ AbortTransaction(h))
        BY <3>1, <4>1 DEF CommitApply, CommitRefused, MayRefuse, CommitFinalize,
                          AbortTransaction, StepsFit
      <4> QED
        BY <4>2, <4>3, <4>4, <4>5 DEF ServerStep
    <3> DEFINE a == rows[h.node][h.op.key].v
    <3>3. a = t /\ a \in Answers
      <4>1. FailsOver(call[t].op)
        BY <2>3, <3>1 DEF FailsOver, AutoCommit
      <4>2. h.node = primary
        BY <1>3, <2>2, <2>3, <2>4, <4>1 DEF Sent
      <4> QED
        BY <1>3, <3>1, <4>2 DEF Answers, Values
    <3>4. Reply(h, a)
      BY <3>2 DEF GetRow, Answer
    <3> HIDE DEF a
    <3>5. Answered(h, a)
      BY <3>3, <3>4, ReplyParts
    <3>6. call[t] \in Call /\ call'[t] = [call[t] EXCEPT !.phase = "answered", !.answer = a]
      BY <1>5, <3>5 DEF Answered
    <3> QED
      BY <3>3, <3>6 DEF Call
  <2>5. Sent(t)
    BY <2>2 DEF Sent
  <2> QED
    BY <1>2, <1>3, <2>2, <2>4, <2>5
<1> QED
  BY <1>4, <1>5

(* What Reads says of one thread whose put must be seen *)
ReadsOf(t) ==
    /\ rows[primary][recent[t]].v = t
    /\ Sent(t) /\ FailsOver(call[t].op) /\ call[t].attempt = 0 => call[t].node = primary
    /\ call[t].phase = "answered" /\ call[t].op.kind = "get"
          /\ call[t].attempt = 0 /\ recent[t] = call[t].op.key => call[t].answer = t

(* A get always has a key, so that None is never the key it reads. *)
LEMMA ReadsIs ==
    ASSUME call \in [Threads -> Call \cup {Idle}]
    PROVE  Reads <=> \A t \in Threads : recent[t] # None => ReadsOf(t)
<1>1. \A t \in Threads : call[t].phase = "answered" /\ call[t].op.kind = "get" =>
         call[t].op.key # None
  <2> SUFFICES ASSUME NEW t \in Threads, call[t].phase = "answered", call[t].op.kind = "get"
               PROVE  call[t].op.key # None
    OBVIOUS
  <2>1. call[t] \in Call
    BY DEF Idle
  <2>2. call[t].op.key \in Keys
    BY <2>1, OpKey DEF Call
  <2> QED
    BY <2>2, ClusterAssumption
<1> QED
  BY <1>1 DEF Reads, RecentIsThere, ReadsOwnPut, ReadsOf

(* A get that must see a put is sent to the primary first. *)
LEMMA ClientReads ==
    ASSUME TypeOK, TypeOK', Reads, NEW t \in Threads, ClientStep(t)
    PROVE  Reads'
<1>1. \A u \in Threads : recent[u] # None => ReadsOf(u)
  BY ReadsIs DEF TypeOK
<1> SUFFICES ASSUME NEW u \in Threads, recent'[u] # None
             PROVE  ReadsOf(u)'
  <2>1. \A v \in Threads : call'[v].phase = "answered" /\ call'[v].op.kind = "get" =>
           call'[v].op.key # None
    <3> SUFFICES ASSUME NEW v \in Threads, call'[v].phase = "answered", call'[v].op.kind = "get"
                 PROVE  call'[v].op.key # None
      OBVIOUS
    <3>1. call'[v] \in Call
      BY DEF TypeOK, Idle
    <3>2. call'[v].op.key \in Keys
      BY <3>1, OpKey DEF Call
    <3> QED
      BY <3>2, ClusterAssumption
  <2> QED
    BY <2>1 DEF Reads, RecentIsThere, ReadsOwnPut, ReadsOf
<1>2. CASE Invoke(t)
  <2>1. UNCHANGED <<primary, recent, rows>> /\ \A v \in Threads : v # t => call'[v] = call[v]
    BY <1>2, InvokeParts
  <2>2. call'[t].phase = "calling"
    <3>1. PICK op \in Op : call'[t] = Made(op)
      BY <1>2, InvokeParts
    <3> QED
      BY <3>1 DEF Made
  <2> QED
    BY <1>1, <2>1, <2>2 DEF ReadsOf, Sent
<1>3. CASE Send(t)
  <2>1. /\ call[t] \in Call /\ call' = [call EXCEPT ![t] = Waits(t)]
        /\ UNCHANGED <<primary, recent, rows>>
    BY <1>3, SendParts
  <2>2. call'[t] = Waits(t) /\ \A v \in Threads : v # t => call'[v] = call[v]
    BY <2>1 DEF TypeOK
  <2>3. /\ Waits(t).phase = "waiting" /\ Waits(t).op = call[t].op
        /\ Waits(t).attempt = call[t].attempt /\ Waits(t).node = Target(t)
    BY <2>1, RequestFields
  <2>4. FailsOver(call[t].op) /\ call[t].attempt = 0 => Target(t) = primary
    <3>1. primary \in 0 .. N - 1 /\ N \in Nat \ {0}
      BY ClusterAssumption DEF TypeOK, Node
    <3>2. (primary + 0) % N = primary
      BY <3>1
    <3> QED
      BY <3>2 DEF Target
  <2> QED
    <3>1. CASE u = t
      BY <1>1, <2>1, <2>2, <2>3, <2>4, <3>1 DEF ReadsOf
    <3>2. CASE u # t
      BY <1>1, <2>1, <2>2, <3>2 DEF ReadsOf, Sent
    <3> QED
      BY <3>1, <3>2
<1>4. CASE Receive(t)
  <2> DEFINE n == NewPrimary(t)
  <2>1. /\ n \in Node /\ primary' = n /\ call' = [SawMove(t, n) EXCEPT ![t] = Idle]
        /\ call[t] \in Call /\ UNCHANGED rows
    BY <1>4, ReceiveParts
  <2>2. n = IF FailsOver(call[t].op) /\ ~Rejected(call[t]) THEN call[t].node ELSE primary
    BY DEF NewPrimary
  <2>3. recent'[u] = IF u = t /\ call[t].op.kind \in {"put", "insert"} /\ ~Rejected(call[t])
                     THEN IF rows[call[t].node][call[t].op.key].v = t THEN call[t].op.key ELSE None
                     ELSE IF n = primary THEN recent[u] ELSE None
    BY <1>4 DEF Receive
  <2> HIDE DEF n
  <2>4. rows[n][recent'[u]].v = u
    <3>1. CASE u = t /\ call[t].op.kind \in {"put", "insert"} /\ ~Rejected(call[t])
      <4>1. n = call[t].node
        BY <2>2, <3>1 DEF FailsOver, AutoCommit, Sql
      <4> QED
        BY <2>3, <3>1, <4>1
    <3>2. CASE ~(u = t /\ call[t].op.kind \in {"put", "insert"} /\ ~Rejected(call[t]))
      <4>1. n = primary /\ recent'[u] = recent[u] /\ recent[u] # None
        BY <2>3, <3>2
      <4> QED
        BY <1>1, <4>1 DEF ReadsOf
    <3> QED
      BY <3>1, <3>2
  <2>5. CASE u = t
    <3>1. call'[u].phase = "idle"
      BY <2>1, <2>5, SawMoveParts DEF Idle
    <3> QED
      BY <2>1, <2>4, <3>1 DEF ReadsOf, Sent
  <2>6. CASE u # t
    <3>1. n = primary /\ recent'[u] = recent[u] /\ recent[u] # None
      BY <2>3, <2>6
    <3>2. SawMove(t, n)[u] = call[u]
      BY <2>6, <3>1 DEF SawMove
    <3>3. call'[u] = call[u]
      <4>1. DOMAIN SawMove(t, n) = Threads
        BY DEF SawMove
      <4> QED
        BY <2>1, <2>6, <3>2, <4>1
    <3> QED
      BY <1>1, <2>1, <3>1, <3>3 DEF ReadsOf, Sent
  <2> QED
    BY <2>5, <2>6
<1>5. CASE Lose(t)
  <2>1. /\ Sent(t) /\ call[t] \in Call /\ call' = [call EXCEPT ![t] = Failed(t)]
        /\ UNCHANGED <<primary, recent, rows>>
    BY <1>5, LoseParts
  <2>2. call'[t] = Failed(t) /\ \A v \in Threads : v # t => call'[v] = call[v]
    BY <2>1 DEF TypeOK
  <2>3. call'[t].phase \in {"calling", "raised"}
    BY <2>1, <2>2, FailedFields
  <2> QED
    BY <1>1, <2>1, <2>2, <2>3 DEF ReadsOf, Sent
<1>6. CASE Raise(t)
  <2>1. /\ call'[t] = Idle /\ \A v \in Threads : v # t => call'[v] = call[v]
        /\ UNCHANGED <<primary, recent, rows>>
    BY <1>6 DEF Raise, TypeOK
  <2> QED
    BY <1>1, <2>1 DEF ReadsOf, Sent, Idle
<1> QED
  BY <1>2, <1>3, <1>4, <1>5, <1>6 DEF ClientStep

-----------------------------------------------------------------------------
(* A request of a live transaction finds it. *)

(* NOT_FOUND is only answered of a transaction that is not live, for good. *)
LEMMA StepNotFound ==
    ASSUME TypeOK, Served, NotFoundMeansEnded, NEW h \in running, ServerStep(h), Step(h)
    PROVE  NotFoundMeansEnded'
<1>1. /\ UNCHANGED handle /\ TxnsGoOn(h) /\ HandlesFit /\ Awaited /\ StepsFit
  BY DEF Step, Serves, Served
<1> SUFFICES ASSUME NEW t \in Threads, call'[t].phase = "answered", ~FailsOver(call'[t].op),
                    call'[t].answer = "not_found", txn'[handle[t].id].live
             PROVE  FALSE
  BY <1>1 DEF NotFoundMeansEnded
<1>2. call[t].phase # "idle" /\ ~FailsOver(call[t].op)
  BY CallGoesOn DEF GetsAnswer
<1>3. handle[t].id \in DOMAIN txn /\ txn[handle[t].id].node = handle[t].node
  BY <1>1, <1>2 DEF HandlesFit, Pinned
<1>4. txn[handle[t].id].live
  BY <1>1, <1>3 DEF TxnsGoOn
<1>5. CASE call'[t] = call[t]
  BY <1>4, <1>5 DEF NotFoundMeansEnded
<1>6. CASE call'[t] # call[t]
  <2>1. GetsAnswer(h, t)
    BY <1>6, CallGoesOn
  <2>2. call[t].phase = "waiting" /\ call[t].id = h.id /\ h.op = call[t].op
        /\ h.node = call[t].node /\ h.txn = handle[t].id
    BY <1>1, <2>1 DEF GetsAnswer, Awaited
  <2>3. call[t].node = handle[t].node
    BY <1>1, <1>2, <2>2 DEF HandlesFit, Pinned, Sent
  <2>4. Found(h)
    BY <1>3, <1>4, <2>2, <2>3 DEF Found
  <2>5. \A a \in Answers : Answer(h, a) => a = "not_found"
    <3> SUFFICES ASSUME NEW a \in Answers, Answer(h, a) PROVE a = "not_found"
      OBVIOUS
    <3>1. Answered(h, a)
      BY ReplyParts DEF Answer
    <3>2. call[t] \in Call /\ call'[t] = [call[t] EXCEPT !.phase = "answered", !.answer = a]
      BY <1>6, <3>1 DEF Answered
    <3> QED
      BY <3>2 DEF Call
  <2>6. h.op.kind \in {"tput", "commit", "abort"}
    <3>1. h.op \in Op
      BY HandlerParts
    <3> QED
      BY <1>2, <2>2, <3>1 DEF Op, FailsOver, AutoCommit, Sql
  <2>7. ~(PutRow(h) \/ GetRow(h) \/ TableNotFound(h) \/ CreateTable(h) \/ InsertRow(h))
    BY <2>6 DEF PutRow, GetRow, TableNotFound, CreateTable, InsertRow, Sql
  <2>8. ~(Scan(h) \/ UpdateRow(h) \/ DeleteRow(h) \/ StatementDone(h) \/ BeginTransaction(h))
    BY <1>1, <2>6 DEF Scan, UpdateRow, DeleteRow, StatementDone, BeginTransaction, StepsFit
  <2>9. ~TxnNotFound(h)
    BY <2>4 DEF TxnNotFound
  <2>10. ~(TxnPut(h) \/ AbortTransaction(h))
    BY <2>5, Verdicts DEF TxnPut, AbortTransaction
  <2>11. ~CommitFinalize(h)
    <3>1. h.result \in {None, "ok", "refused", "error"} /\ None # "not_found"
      BY HandlerParts, ClusterAssumption DEF Verdict
    <3> QED
      BY <2>5, <3>1, Verdicts DEF CommitFinalize
  <2>12. UNCHANGED call => FALSE
    BY <1>6
  <2>13. ~(CommitCheck(h) \/ CommitPrepare(h) \/ CommitApply(h) \/ CommitRefused(h))
    BY <2>5, <2>12, Verdicts DEF CommitCheck, CommitPrepare, CommitApply, CommitRefused, Goes
  <2> QED
    BY <2>7, <2>8, <2>9, <2>10, <2>11, <2>13 DEF ServerStep
<1> QED
  BY <1>5, <1>6

(* A client brings no transaction back. *)
LEMMA ClientNotFound ==
    ASSUME TypeOK, NotFoundMeansEnded, NEW t \in Threads, ClientStep(t)
    PROVE  NotFoundMeansEnded'
<1> SUFFICES ASSUME NEW u \in Threads, call'[u].phase = "answered", ~FailsOver(call'[u].op),
                    call'[u].answer = "not_found"
             PROVE  ~txn'[handle'[u].id].live
  BY DEF NotFoundMeansEnded
<1>1. CASE Invoke(t)
  <2>1. call'[t].phase = "calling" /\ UNCHANGED txn
        /\ \A v \in Threads : v # t => call'[v] = call[v] /\ handle'[v] = handle[v]
    <3>1. PICK op \in Op : call'[t] = Made(op)
      BY <1>1, InvokeParts
    <3>2. UNCHANGED txn /\ \A v \in Threads : v # t => call'[v] = call[v] /\ handle'[v] = handle[v]
      BY <1>1, InvokeParts
    <3> QED
      BY <3>1, <3>2 DEF Made
  <2> QED
    BY <2>1 DEF NotFoundMeansEnded
<1>2. CASE Send(t)
  <2>1. call'[t].phase = "waiting" /\ UNCHANGED <<txn, handle>>
        /\ \A v \in Threads : v # t => call'[v] = call[v]
    BY <1>2, SendParts, RequestFields DEF TypeOK
  <2> QED
    BY <2>1 DEF NotFoundMeansEnded
<1>3. CASE Receive(t)
  <2> DEFINE n == NewPrimary(t)
  <2>1. /\ n \in Node /\ call' = [SawMove(t, n) EXCEPT ![t] = Idle] /\ UNCHANGED txn
        /\ \A v \in Threads : v # t => handle'[v] = handle[v]
    BY <1>3, ReceiveParts
  <2> HIDE DEF n
  <2>2. u # t /\ call'[u] = SawMove(t, n)[u]
    BY <2>1, SawMoveParts DEF Idle
  <2>3. \/ SawMove(t, n)[u] = call[u]
        \/ call[u] \in Call /\ SawMove(t, n)[u] = [call[u] EXCEPT !.moved = TRUE]
    <3>1. n \in Node
      BY <2>1
    <3> QED
      BY <3>1, OneSawMove
  <2>4. \A c \in Call : LET d == [c EXCEPT !.moved = TRUE] IN
           d.phase = c.phase /\ d.op = c.op /\ d.answer = c.answer
    BY DEF Call
  <2>5. call'[u].phase = call[u].phase /\ call'[u].op = call[u].op
        /\ call'[u].answer = call[u].answer
    BY <2>2, <2>3, <2>4
  <2> QED
    BY <2>1, <2>2, <2>5 DEF NotFoundMeansEnded
<1>4. CASE Lose(t)
  <2>1. /\ call[t] \in Call /\ call' = [call EXCEPT ![t] = Failed(t)] /\ UNCHANGED <<txn, handle>>
    BY <1>4, LoseParts
  <2>2. call'[t].phase \in {"calling", "raised"} /\ \A v \in Threads : v # t => call'[v] = call[v]
    BY <2>1, FailedFields DEF TypeOK
  <2> QED
    BY <2>1, <2>2 DEF NotFoundMeansEnded
<1>5. CASE Raise(t)
  <2>1. /\ call'[t].phase = "idle" /\ UNCHANGED <<txn, handle>>
        /\ \A v \in Threads : v # t => call'[v] = call[v]
    BY <1>5 DEF Raise, TypeOK, Idle
  <2> QED
    BY <2>1 DEF NotFoundMeansEnded
<1> QED
  BY <1>1, <1>2, <1>3, <1>4, <1>5 DEF ClientStep

(* A restart ends transactions and begins none. *)
LEMMA RestartNotFound ==
    ASSUME TypeOK, Served, NotFoundMeansEnded, NEW n \in Node, Restart(n)
    PROVE  NotFoundMeansEnded'
<1>1. /\ \A i \in DOMAIN txn : txn'[i].live => txn[i].live
      /\ UNCHANGED <<call, handle>>
  BY RestartParts
<1>2. \A t \in Threads : call[t].phase = "answered" /\ ~FailsOver(call[t].op) =>
         handle[t].id \in DOMAIN txn
  BY DEF Served, HandlesFit, Pinned
<1> QED
  BY <1>1, <1>2 DEF NotFoundMeansEnded

-----------------------------------------------------------------------------
(* An undisturbed UPDATE or DELETE is exact. *)

(* What a statement makes of the row old with key k *)
Exact(h, old, new) ==
    IF ~Matches(h.op, old) THEN new = old
    ELSE IF h.op.kind = "delete" THEN new = Missing
    ELSE new.v = h.by /\ new.w = old.w

(* What StatementsFit says of one statement, with the rows R of its node *)
Fits(h, R) ==
    /\ \A k \in DOMAIN h.todo :
          Matches(h.op, h.before[k]) /\ h.todo[k] = h.before[k] /\ R[k] = h.before[k]
    /\ \A k \in Keys \ DOMAIN h.todo : Exact(h, h.before[k], R[k])

(* A write on the node of a statement disturbs it. *)
LEMMA DisturbedOrSame ==
    ASSUME TypeOK, Served, NEW h \in running, ServerStep(h),
           NEW g \in running', g.id # h.id, g.clean
    PROVE  rows'[g.node] = rows[g.node]
<1>1. OwnNames /\ GoOn(h) /\ g.node \in Node
  <2>1. Step(h) /\ OwnNames
    BY ServerStepIsStep DEF Served, RequestsNamed, OwnNames
  <2> QED
    BY <2>1 DEF Step, Serves, GoOn, Handler
<1>2. h.node \in Node
  BY HandlerParts
<1>3. \A n : g \in Disturbed(n, Others(h)) => g.node # n
  <2> SUFFICES ASSUME NEW n, g \in Disturbed(n, Others(h)), g.node = n PROVE FALSE
    OBVIOUS
  <2>1. PICK f \in Others(h) : g = Touched(n, f)
    BY DEF Disturbed, Touched
  <2>2. f \in Handler
    BY DEF Others, TypeOK
  <2>3. f.node = n
    BY <2>1, <2>2, TouchedIsSame DEF Same
  <2> QED
    BY <2>1, <2>2, <2>3, TouchedIsSame
<1>4. \A new \in Partial(Keys, Row) :
         Write(h.node, new) /\ g.node # h.node => rows'[g.node] = rows[g.node]
  BY <1>1, <1>2, WriteTypes
<1>5. CASE StorePut(h) /\ h.op.kind \in {"put", "insert"}
  <2>1. running' = Disturbed(h.node, Others(h))
    BY <1>5 DEF StorePut
  <2>2. g.node # h.node
    BY <1>3, <2>1
  <2>3. rows'[g.node] = rows[g.node]
    <3>1. \A m \in Node : m # h.node => rows'[m] = rows[m]
      BY <1>5 DEF StorePut, Write, TypeOK
    <3> QED
      BY <1>1, <2>2, <3>1
  <2> QED
    BY <2>3
<1>6. CASE UpdateRow(h) \/ DeleteRow(h)
  <2>1. PICK k \in DOMAIN h.todo, row \in Row : WriteRow(h, k, row)
    BY <1>6, ImagesAreRows DEF UpdateRow, DeleteRow, NextRow
  <2>2. h.op.kind \in {"update", "delete"}
    BY <1>6 DEF UpdateRow, DeleteRow
  <2>3. /\ running' = Disturbed(h.node, Others(h)) \cup {Wrote(h, k)}
        /\ Wrote(h, k) \in Handler /\ \A m \in Node : m # h.node => rows'[m] = rows[m]
    BY <1>1, <2>1, <2>2, WriteRowStep
  <2>4. Wrote(h, k).id = h.id
    BY HandlerParts DEF Wrote, Handler
  <2> QED
    BY <1>1, <1>3, <2>3, <2>4
<1>7. CASE CommitApply(h)
  <2>1. txn[h.txn] \in Txn
    BY <1>7, ItsTxn DEF CommitApply, Served
  <2> DEFINE new == [k \in txn[h.txn].writes |-> [v |-> h.by, w |-> h.by]]
  <2>2. Write(h.node, new) /\ new \in Partial(Keys, Row) /\ DOMAIN new = txn[h.txn].writes
    BY <1>7, <2>1, CommitWrites DEF CommitApply
  <2> HIDE DEF new
  <2>3. AtEnd(h, "ok").id = h.id
    BY HandlerParts DEF AtEnd, Handler
  <2>4. CASE running' = Disturbed(h.node, Others(h)) \cup {AtEnd(h, "ok")}
    BY <1>3, <1>4, <2>2, <2>3, <2>4
  <2>5. CASE txn[h.txn].writes = {}
    <3>1. \A k \in Keys : rows'[h.node][k] = rows[h.node][k]
      BY <1>2, <2>2, <2>5, WriteTypes
    <3>2. rows'[h.node] \in [Keys -> Row] /\ rows[h.node] \in [Keys -> Row]
      <4>1. rows' \in [Node -> [Keys -> Row]]
        BY <1>2, <2>2, WriteTypes
      <4> QED
        BY <1>2, <4>1 DEF TypeOK
    <3>3. rows'[h.node] = rows[h.node]
      BY <3>1, <3>2
    <3> QED
      BY <1>4, <2>2, <3>3
  <2> QED
    BY <1>7, <2>4, <2>5, CommitApplyStep
<1>8. CASE UNCHANGED rows
  BY <1>8
<1>9. PutRow(h) \/ InsertRow(h) =>
         (StorePut(h) /\ h.op.kind \in {"put", "insert"}) \/ UNCHANGED rows
  BY DEF PutRow, InsertRow
<1>10. GetRow(h) \/ TableNotFound(h) \/ CreateTable(h) \/ Scan(h) \/ StatementDone(h)
        => UNCHANGED rows
  BY DEF GetRow, TableNotFound, CreateTable, Scan, StatementDone
<1>11. BeginTransaction(h) \/ TxnNotFound(h) \/ TxnPut(h) \/ CommitCheck(h) \/ CommitPrepare(h)
        => UNCHANGED rows
  BY DEF BeginTransaction, TxnNotFound, TxnPut, CommitCheck, CommitPrepare
<1>12. CommitRefused(h) \/ CommitFinalize(h) \/ AbortTransaction(h) => UNCHANGED rows
  BY DEF CommitRefused, CommitFinalize, AbortTransaction
<1> QED
  BY <1>5, <1>6, <1>7, <1>8, <1>9, <1>10, <1>11, <1>12 DEF ServerStep

(* The scan finds the rows that match, as they are. *)
LEMMA ScanFits ==
    ASSUME TypeOK, NEW h \in running, Scan(h)
    PROVE  Fits(Scanned(h), rows'[Scanned(h).node])
<1>1. h \in Handler /\ UNCHANGED rows
  BY HandlerParts DEF Scan
<1> DEFINE R == rows[h.node]
           todo == [k \in {x \in Keys : Matches(h.op, R[x])} |-> R[k]]
<1>2. Scanned(h).node = h.node /\ Scanned(h).op = h.op /\ Scanned(h).by = h.by
      /\ Scanned(h).todo = todo /\ Scanned(h).before = R
  BY <1>1 DEF Scanned, Handler
<1>3. \A k \in DOMAIN todo : Matches(h.op, R[k]) /\ todo[k] = R[k]
  OBVIOUS
<1>4. \A k \in Keys \ DOMAIN todo : ~Matches(h.op, R[k])
  OBVIOUS
<1> HIDE DEF todo, R
<1>5. rows'[h.node] = R
  BY <1>1 DEF R
<1> QED
  BY <1>2, <1>3, <1>4, <1>5 DEF Fits, Exact

(* The row that is written is the one the statement says. *)
LEMMA WriteFits ==
    ASSUME TypeOK, OwnNames, NEW h \in running, Fits(h, rows[h.node]),
           UpdateRow(h) \/ DeleteRow(h), NEW g \in running', g.id = h.id
    PROVE  Fits(g, rows'[g.node])
<1>1. PICK k \in DOMAIN h.todo, row \in Row :
         /\ WriteRow(h, k, row)
         /\ row = IF h.op.kind = "delete" THEN Missing ELSE Image(h, h.todo[k])
  BY ImagesAreRows DEF UpdateRow, DeleteRow, NextRow
<1>2. h.op.kind \in {"update", "delete"} /\ h \in Handler
  BY HandlerParts DEF UpdateRow, DeleteRow
<1>3. /\ running' = Disturbed(h.node, Others(h)) \cup {Wrote(h, k)} /\ k \in Keys
      /\ DOMAIN Wrote(h, k).todo = DOMAIN h.todo \ {k}
      /\ \A j \in DOMAIN h.todo \ {k} : Wrote(h, k).todo[j] = h.todo[j]
      /\ \A j \in Keys : rows'[h.node][j] = IF j = k THEN row ELSE rows[h.node][j]
  BY <1>1, <1>2, WriteRowStep
<1>4. g = Wrote(h, k)
  BY <1>3, OneMoves
<1>5. g.node = h.node /\ g.op = h.op /\ g.by = h.by /\ g.before = h.before
  BY <1>2, <1>4 DEF Wrote, Handler
<1>6. DOMAIN h.todo \subseteq Keys /\ h.todo[k] \in Row
  BY HandlerParts, PartialParts
<1>7. Exact(h, h.before[k], row)
  <2>1. Matches(h.op, h.before[k]) /\ h.todo[k] = h.before[k]
    BY DEF Fits
  <2>2. Image(h, h.todo[k]).v = h.by /\ Image(h, h.todo[k]).w = h.todo[k].w
    BY <1>6 DEF Image, Row
  <2> QED
    BY <1>1, <2>1, <2>2 DEF Exact
<1>8. \A j \in DOMAIN g.todo : j \in DOMAIN h.todo /\ j # k /\ j \in Keys /\ g.todo[j] = h.todo[j]
  BY <1>3, <1>4, <1>6
<1>9. \A j \in Keys \ DOMAIN g.todo : j = k \/ j \notin DOMAIN h.todo
  BY <1>3, <1>4
<1>10. \A o, n : Exact(g, o, n) <=> Exact(h, o, n)
  BY <1>5 DEF Exact
<1>11. \A j \in DOMAIN g.todo : /\ Matches(g.op, g.before[j]) /\ g.todo[j] = g.before[j]
                                /\ rows'[g.node][j] = g.before[j]
  BY <1>3, <1>5, <1>8 DEF Fits
<1>12. \A j \in Keys \ DOMAIN g.todo : Exact(g, g.before[j], rows'[g.node][j])
  <2> SUFFICES ASSUME NEW j \in Keys \ DOMAIN g.todo
               PROVE  Exact(h, h.before[j], rows'[h.node][j])
    BY <1>5, <1>10
  <2>1. CASE j = k
    BY <1>3, <1>7, <2>1
  <2>2. CASE j # k
    <3>1. rows'[h.node][j] = rows[h.node][j] /\ j \notin DOMAIN h.todo
      BY <1>3, <1>9, <2>2
    <3> QED
      BY <3>1 DEF Fits
  <2> QED
    BY <2>1, <2>2
<1> QED
  BY <1>11, <1>12 DEF Fits

(* A step of a server keeps every undisturbed statement exact. *)
LEMMA StepStatements ==
    ASSUME TypeOK, Served, StatementsFit, NEW h \in running, ServerStep(h), Step(h)
    PROVE  StatementsFit'
<1>1. GoOn(h) /\ OwnNames
  BY DEF Step, Serves, Served, RequestsNamed, OwnNames
<1>2. \A f \in running : f.step = "writing" /\ f.clean => Fits(f, rows[f.node])
  BY DEF StatementsFit, Fits, Exact
<1> SUFFICES ASSUME NEW g \in running', g.step = "writing", g.clean
             PROVE  Fits(g, rows'[g.node])
  BY DEF StatementsFit, Fits, Exact
<1>3. CASE g.id # h.id
  <2>1. PICK f \in running : Same(g, f) /\ SameWork(g, f)
    BY <1>1, <1>3, OtherSame
  <2>2. rows'[g.node] = rows[g.node]
    BY <1>3, DisturbedOrSame
  <2>3. Fits(f, rows[f.node])
    BY <1>2, <2>1 DEF SameWork
  <2> QED
    BY <2>1, <2>2, <2>3 DEF Fits, Exact, Same, SameWork
<1>4. CASE g.id = h.id
  <2>1. Moved(h, g) /\ h \in Handler
    BY <1>4, StepMoves, HandlerParts
  <2>2. CASE Scan(h) /\ g = Scanned(h)
    BY <2>2, ScanFits
  <2>3. CASE h.step = "writing" /\ \E k \in DOMAIN h.todo : g = Wrote(h, k)
    <3>1. h.clean
      BY <2>1, <2>3 DEF Wrote, Handler
    <3>2. h.op.kind \in {"update", "delete"}
      BY <2>3 DEF Served, StepsFit
    <3>3. ~(PutRow(h) \/ GetRow(h) \/ CreateTable(h) \/ InsertRow(h) \/ BeginTransaction(h))
      BY <3>2 DEF PutRow, GetRow, CreateTable, InsertRow, BeginTransaction
    <3>4. ~(TableNotFound(h) \/ Scan(h) \/ TxnNotFound(h) \/ TxnPut(h) \/ CommitCheck(h))
      BY <2>3, <3>2 DEF TableNotFound, Scan, TxnNotFound, TxnPut, CommitCheck
    <3>5. ~(CommitPrepare(h) \/ CommitApply(h) \/ CommitRefused(h) \/ CommitFinalize(h))
      BY <2>3 DEF CommitPrepare, CommitApply, CommitRefused, MayRefuse, CommitFinalize
    <3>6. ~(StatementDone(h) \/ AbortTransaction(h))
      BY <1>1, <1>4, <3>2, AnsweredIsGone DEF StatementDone, AbortTransaction
    <3>7. UpdateRow(h) \/ DeleteRow(h)
      BY <3>3, <3>4, <3>5, <3>6 DEF ServerStep
    <3> QED
      BY <1>1, <1>2, <1>4, <2>3, <3>1, <3>7, WriteFits
  <2>4. \A s \in Steps : At(h, s).step = s
    BY <2>1 DEF At, Handler
  <2>5. \A a : AtEnd(h, a).step = "finalizing"
    BY <2>1 DEF AtEnd, Handler
  <2> QED
    BY <2>1, <2>2, <2>3, <2>4, <2>5 DEF Moved, Steps
<1> QED
  BY <1>3, <1>4

(* A client writes no row, and what it sends has not been scanned for. *)
LEMMA ClientStatements ==
    ASSUME TypeOK, StatementsFit, NEW t \in Threads, ClientStep(t)
    PROVE  StatementsFit'
<1>1. UNCHANGED rows
  BY DEF ClientStep, Invoke, Send, Receive, Lose, Raise
<1>2. \A h \in running' : h \in running \/ h.step = "new"
  <2>1. CASE Send(t)
    <3>1. running' = running \cup {Request(t)} /\ Request(t).step = "new"
      BY <2>1, SendParts, RequestFields
    <3> QED
      BY <3>1
  <2>2. CASE Lose(t)
    BY <2>2, LoseParts
  <2>3. CASE Invoke(t) \/ Receive(t) \/ Raise(t)
    BY <2>3 DEF Invoke, Receive, Raise
  <2> QED
    BY <2>1, <2>2, <2>3 DEF ClientStep
<1> QED
  BY <1>1, <1>2 DEF StatementsFit

-----------------------------------------------------------------------------
(* What a caller is told of a commit is true. *)

(* The members of Unapplied(t) *)
LEMMA InUnapplied ==
    ASSUME NEW t, NEW n
    PROVE  n \in Unapplied(t) <=>
              \/ \E h \in running : /\ h.by = t /\ h.txn = handle[t].id /\ Ends(h.op)
                                    /\ ~Applied(h) /\ n = h.id[2]
              \/ n = serial[t] + 1 /\ call[t].phase = "calling" /\ Ends(call[t].op)
              \/ /\ n = serial[t] /\ call[t].phase = "answered" /\ Ends(call[t].op)
                 /\ ~(call[t].op.kind = "commit" /\ call[t].answer = "ok")
              \/ n = 0 /\ handle[t].told \in {"refused", "aborted"}
BY DEF Unapplied

(* They are finitely many numbers. *)
LEMMA UnappliedFinite ==
    ASSUME TypeOK, Served, NEW t \in Threads
    PROVE  IsFiniteSet(Unapplied(t)) /\ Cardinality(Unapplied(t)) \in Nat
<1>1. serial[t] \in Nat
  BY DEF TypeOK
<1>2. \A h \in running : h.by = t => h.id[2] \in 0 .. serial[t] + 1
  <2> SUFFICES ASSUME NEW h \in running, h.by = t PROVE h.id[2] \in 0 .. serial[t] + 1
    OBVIOUS
  <2>1. h.id[2] \in Nat /\ h.id[2] <= serial[t]
    BY HandlerParts DEF Served, RequestsNamed, Id
  <2> QED
    BY <1>1, <2>1
<1>3. Unapplied(t) \subseteq 0 .. serial[t] + 1
  BY <1>1, <1>2, InUnapplied
<1>4. IsFiniteSet(0 .. serial[t] + 1)
  BY <1>1, FS_Interval
<1>5. IsFiniteSet(Unapplied(t))
  BY <1>3, <1>4, FS_Subset
<1> QED
  BY <1>5, FS_CardinalityType

(* A set with one member more, one member less, or another member *)
LEMMA OneMore ==
    ASSUME NEW S, IsFiniteSet(S), NEW T, NEW x, T \subseteq S \cup {x}
    PROVE  Cardinality(T) \in Nat /\ Cardinality(T) <= Cardinality(S) + 1
<1>1. IsFiniteSet(S \cup {x}) /\ Cardinality(S \cup {x}) <= Cardinality(S) + 1
  <2>1. IsFiniteSet(S \cup {x}) /\ Cardinality(S \cup {x}) =
           IF x \in S THEN Cardinality(S) ELSE Cardinality(S) + 1
    BY FS_AddElement
  <2>2. Cardinality(S) \in Nat
    BY FS_CardinalityType
  <2> QED
    BY <2>1, <2>2
<1>2. IsFiniteSet(T) /\ Cardinality(T) <= Cardinality(S \cup {x})
  BY <1>1, FS_Subset
<1>3. Cardinality(T) \in Nat /\ Cardinality(S) \in Nat /\ Cardinality(S \cup {x}) \in Nat
  BY <1>1, <1>2, FS_CardinalityType
<1> QED
  BY <1>1, <1>2, <1>3

(* A subset has no more members. *)
LEMMA NoMore ==
    ASSUME NEW S, IsFiniteSet(S), NEW T, T \subseteq S
    PROVE  /\ Cardinality(T) \in Nat /\ Cardinality(S) \in Nat
           /\ Cardinality(T) <= Cardinality(S)
<1>1. IsFiniteSet(T) /\ Cardinality(T) <= Cardinality(S)
  BY FS_Subset
<1> QED
  BY <1>1, FS_CardinalityType

(* A subset without x has fewer members. *)
LEMMA OneLess ==
    ASSUME NEW S, IsFiniteSet(S), NEW x \in S, NEW T, T \subseteq S \ {x}
    PROVE  /\ Cardinality(T) \in Nat /\ Cardinality(S) \in Nat
           /\ Cardinality(T) + 1 <= Cardinality(S)
<1>1. IsFiniteSet(S \ {x}) /\ Cardinality(S \ {x}) = Cardinality(S) - 1
  BY FS_RemoveElement
<1>2. /\ Cardinality(T) \in Nat /\ Cardinality(S \ {x}) \in Nat
      /\ Cardinality(T) <= Cardinality(S \ {x})
  BY <1>1, NoMore
<1>3. Cardinality(S) \in Nat
  BY FS_CardinalityType
<1> QED
  BY <1>1, <1>2, <1>3

(* A subset with y in place of x has no more members. *)
LEMMA OneOther ==
    ASSUME NEW S, IsFiniteSet(S), NEW x \in S, NEW T, NEW y, T \subseteq (S \ {x}) \cup {y}
    PROVE  /\ Cardinality(T) \in Nat /\ Cardinality(S) \in Nat
           /\ Cardinality(T) <= Cardinality(S)
<1>1. IsFiniteSet(S \ {x}) /\ Cardinality(S \ {x}) = Cardinality(S) - 1
  BY FS_RemoveElement
<1>2. Cardinality(T) \in Nat /\ Cardinality(T) <= Cardinality(S \ {x}) + 1
  BY <1>1, OneMore
<1>3. Cardinality(S) \in Nat
  BY FS_CardinalityType
<1> QED
  BY <1>1, <1>2, <1>3

(* The answer to a commit is success exactly when it has applied. *)
LEMMA CommitAnswers ==
    ASSUME TypeOK, Served, NEW h \in running, ServerStep(h), NEW t \in Threads,
           GetsAnswer(h, t), call'[t] # call[t], Ends(h.op)
    PROVE  Applied(h) <=> h.op.kind = "commit" /\ call'[t].answer = "ok"
<1>1. StepsFit /\ h.op.kind \in {"commit", "abort"}
  BY DEF Served, Ends
<1>2. \A a \in Answers : Answer(h, a) => call'[t].answer = a
  <2> SUFFICES ASSUME NEW a \in Answers, Answer(h, a) PROVE call'[t].answer = a
    OBVIOUS
  <2>1. Answered(h, a)
    BY ReplyParts DEF Answer
  <2>2. call[t] \in Call /\ call'[t] = [call[t] EXCEPT !.phase = "answered", !.answer = a]
    BY <2>1 DEF Answered
  <2> QED
    BY <2>2 DEF Call
<1>3. ~(PutRow(h) \/ GetRow(h) \/ TableNotFound(h) \/ CreateTable(h) \/ InsertRow(h))
  BY <1>1 DEF PutRow, GetRow, TableNotFound, CreateTable, InsertRow, Sql
<1>4. ~(Scan(h) \/ UpdateRow(h) \/ DeleteRow(h) \/ StatementDone(h) \/ BeginTransaction(h))
  BY <1>1 DEF Scan, UpdateRow, DeleteRow, StatementDone, BeginTransaction, StepsFit
<1>5. ~TxnPut(h)
  BY <1>1 DEF TxnPut
<1>6. CASE TxnNotFound(h)
  <2>1. h.step = "new" /\ call'[t].answer = "not_found"
    BY <1>2, <1>6, Verdicts DEF TxnNotFound
  <2> QED
    BY <2>1 DEF Applied
<1>7. CASE CommitCheck(h)
  <2>1. ~Goes(h, At(h, "checked"))
    BY DEF Goes
  <2>2. h.step = "new" /\ call'[t].answer = "refused"
    BY <1>2, <1>7, <2>1, Verdicts DEF CommitCheck, At
  <2> QED
    BY <2>2 DEF Applied
<1>8. CASE CommitFinalize(h)
  <2>1. h.result \in Answers /\ h.step = "finalizing" /\ Answer(h, h.result)
    BY <1>8, HandlerParts, Verdicts DEF CommitFinalize
  <2> QED
    BY <1>1, <1>2, <2>1 DEF Applied, StepsFit
<1>9. CASE AbortTransaction(h)
  BY <1>1, <1>9 DEF AbortTransaction, Applied, StepsFit
<1>10. ~(CommitPrepare(h) \/ CommitApply(h) \/ CommitRefused(h))
  BY DEF CommitPrepare, CommitApply, CommitRefused, Goes
<1> QED
  BY <1>3, <1>4, <1>5, <1>6, <1>7, <1>8, <1>9, <1>10 DEF ServerStep

(* A step of a server makes no request unapplied that was not. *)
LEMMA StepUnapplied ==
    ASSUME TypeOK, Served, NEW h \in running, ServerStep(h), Step(h), NEW t \in Threads
    PROVE  Unapplied(t)' \subseteq Unapplied(t)
<1>1. GoOn(h) /\ UNCHANGED <<serial, handle>> /\ Awaited /\ RequestsNamed
  BY DEF Step, Serves, Served
<1> SUFFICES ASSUME NEW n \in Unapplied(t)' PROVE n \in Unapplied(t)
  OBVIOUS
<1>2. \/ \E g \in running' : /\ g.by = t /\ g.txn = handle[t].id /\ Ends(g.op)
                             /\ ~Applied(g) /\ n = g.id[2]
      \/ n = serial[t] + 1 /\ call'[t].phase = "calling" /\ Ends(call'[t].op)
      \/ /\ n = serial[t] /\ call'[t].phase = "answered" /\ Ends(call'[t].op)
         /\ ~(call'[t].op.kind = "commit" /\ call'[t].answer = "ok")
      \/ n = 0 /\ handle[t].told \in {"refused", "aborted"}
  BY <1>1 DEF Unapplied
<1>3. CASE \E g \in running' : /\ g.by = t /\ g.txn = handle[t].id /\ Ends(g.op)
                               /\ ~Applied(g) /\ n = g.id[2]
  <2>1. PICK g \in running' : /\ g.by = t /\ g.txn = handle[t].id /\ Ends(g.op)
                              /\ ~Applied(g) /\ n = g.id[2]
    BY <1>3
  <2>2. CASE g.id # h.id
    <3>1. PICK f \in running : Same(g, f) /\ SameWork(g, f)
      BY <1>1, <2>2, OtherSame
    <3>2. f.by = t /\ f.txn = handle[t].id /\ Ends(f.op) /\ ~Applied(f) /\ n = f.id[2]
      BY <2>1, <3>1 DEF Same, SameWork, Applied
    <3> QED
      BY <3>2, InUnapplied
  <2>3. CASE g.id = h.id
    <3>1. Moved(h, g)
      BY <2>3, StepMoves
    <3>2. ~Applied(h)
      BY <3>1 DEF Moved, Applied, Scan, CommitCheck, CommitPrepare, CommitApply
    <3>3. PICK f \in running : Same(g, f)
      BY <1>1 DEF GoOn
    <3>4. f = h
      BY <1>1, <2>3, <3>3 DEF Same, RequestsNamed
    <3>5. h.by = t /\ h.txn = handle[t].id /\ Ends(h.op) /\ n = h.id[2]
      BY <2>1, <3>3, <3>4 DEF Same
    <3> QED
      BY <3>2, <3>5, InUnapplied
  <2> QED
    BY <2>2, <2>3
<1>4. CASE n = serial[t] + 1 /\ call'[t].phase = "calling" /\ Ends(call'[t].op)
  <2>1. call'[t] = call[t]
    BY <1>4, CallGoesOn DEF GetsAnswer
  <2> QED
    BY <1>4, <2>1, InUnapplied
<1>5. CASE /\ n = serial[t] /\ call'[t].phase = "answered" /\ Ends(call'[t].op)
           /\ ~(call'[t].op.kind = "commit" /\ call'[t].answer = "ok")
  <2>1. CASE call'[t] = call[t]
    BY <1>5, <2>1, InUnapplied
  <2>2. CASE call'[t] # call[t]
    <3>1. GetsAnswer(h, t)
      BY <2>2, CallGoesOn
    <3>2. /\ t = h.by /\ call[t].phase = "waiting" /\ call[t].id = h.id
          /\ call'[t].op = call[t].op
      BY <3>1 DEF GetsAnswer
    <3>3. h.op = call[t].op /\ h.txn = handle[t].id /\ h.id = <<t, serial[t]>>
      BY <1>1, <3>2 DEF Awaited, RequestsNamed, Sent
    <3>4. Ends(h.op)
      BY <1>5, <3>2, <3>3
    <3>5. ~Applied(h)
      BY <1>5, <2>2, <3>1, <3>2, <3>3, <3>4, CommitAnswers
    <3>6. h.id[2] = n
      BY <1>5, <3>3
    <3> QED
      BY <3>2, <3>3, <3>4, <3>5, <3>6, InUnapplied
  <2> QED
    BY <2>1, <2>2
<1>6. CASE n = 0 /\ handle[t].told \in {"refused", "aborted"}
  BY <1>6, InUnapplied
<1> QED
  BY <1>2, <1>3, <1>4, <1>5, <1>6

(* A commit that applies is one request less that has not. *)
LEMMA ApplyUnapplied ==
    ASSUME TypeOK, Served, NEW h \in running, ServerStep(h), Step(h), CommitApply(h),
           NEW t \in Threads, handle[t].id # None, h.txn = handle[t].id
    PROVE  h.id[2] \in Unapplied(t) /\ h.id[2] \notin Unapplied(t)'
<1>1. /\ GoOn(h) /\ UNCHANGED <<serial, handle, call>>
      /\ RequestsNamed /\ HandlesFit /\ StepsFit /\ OwnNames
  BY CommitApplyStep DEF Step, Serves, Served, RequestsNamed, OwnNames
<1>2. h.op.kind = "commit" /\ h.step = "preparing"
  BY <1>1 DEF CommitApply, StepsFit
<1>3. Pinned(h.op) /\ Ends(h.op) /\ ~Applied(h)
  BY <1>2 DEF Pinned, FailsOver, AutoCommit, Sql, Ends, Applied
<1>4. h.by = t
  BY <1>1, <1>3 DEF HandlesFit
<1>5. h.id \in Id /\ h.id[1] = t /\ 1 <= h.id[2] /\ h.id[2] <= serial[t] /\ serial[t] \in Nat
      /\ h.id[2] \in Nat
  BY <1>1, <1>4, HandlerParts DEF RequestsNamed, TypeOK, Id
<1>6. h.id[2] \in Unapplied(t)
  BY <1>3, <1>4, InUnapplied
<1>7. ASSUME NEW g \in running', g.by = t, g.id[2] = h.id[2] PROVE Applied(g)
  <2>1. PICK f \in running : Same(g, f)
    BY <1>1 DEF GoOn
  <2>2. g.id = h.id
    <3>1. g.id \in Id /\ g.id[1] = t
      BY <1>1, <1>7, <2>1, HandlerParts DEF Same, RequestsNamed
    <3> QED
      BY <1>5, <1>7, <3>1 DEF Id
  <2>3. Moved(h, g)
    BY <2>2, StepMoves
  <2>4. g = AtEnd(h, "ok")
    <3>1. \/ running' = Others(h) \cup {AtEnd(h, "ok")}
          \/ running' = Disturbed(h.node, Others(h)) \cup {AtEnd(h, "ok")}
      BY CommitApplyStep
    <3> QED
      BY <1>1, <2>2, <3>1, OneMoves
  <2> QED
    BY <2>4, HandlerParts DEF AtEnd, Applied, Handler
<1>8. h.id[2] # serial[t] + 1 /\ h.id[2] # 0
  BY <1>5
<1>9. call[t].phase = "answered" => h.id[2] # serial[t]
  <2> SUFFICES ASSUME call[t].phase = "answered", h.id[2] = serial[t] PROVE FALSE
    OBVIOUS
  <2>1. call[t].id = <<t, serial[t]>> /\ h.id # call[t].id
    BY <1>1 DEF RequestsNamed, Sent
  <2> QED
    BY <1>5, <2>1 DEF Id
<1> QED
  BY <1>1, <1>6, <1>7, <1>8, <1>9 DEF Unapplied

(* Each commit that applies is paid for by a request that ends. *)
LEMMA StepEnds ==
    ASSUME TypeOK, Served, EndsCount, NEW h \in running, ServerStep(h), Step(h)
    PROVE  EndsCount'
<1>1. UNCHANGED handle /\ TxnsGoOn(h) /\ HandlesFit
  BY DEF Step, Serves, Served
<1> SUFFICES ASSUME NEW t \in Threads, handle[t].id # None
             PROVE  txn'[handle[t].id].applied + Cardinality(Unapplied(t)') <= handle[t].ends
  BY <1>1 DEF EndsCount
<1> DEFINE i == handle[t].id
           M == Unapplied(t)
           M2 == Unapplied(t)'
<1>2. i \in DOMAIN txn /\ txn[i].applied \in Nat
  BY <1>1 DEF HandlesFit, TypeOK, Txn
<1>3. IsFiniteSet(M) /\ M2 \subseteq M
  BY UnappliedFinite, StepUnapplied
<1>4. handle[t].ends \in Nat
  BY DEF TypeOK, Handle
<1>5. txn[i].applied + Cardinality(M) <= handle[t].ends
  BY DEF EndsCount
<1>6. \/ txn'[i].applied = txn[i].applied
      \/ i = h.txn /\ CommitApply(h) /\ txn'[i].applied = txn[i].applied + 1
  BY <1>1, <1>2 DEF TxnsGoOn
<1>7. CASE txn'[i].applied = txn[i].applied
  <2> HIDE DEF M, M2
  <2>1. Cardinality(M2) \in Nat /\ Cardinality(M) \in Nat /\ Cardinality(M2) <= Cardinality(M)
    BY <1>3, NoMore
  <2>2. txn[i].applied + Cardinality(M2) <= handle[t].ends
    BY <1>2, <1>4, <1>5, <2>1
  <2> QED
    BY <1>7, <2>2 DEF M2
<1>8. CASE i = h.txn /\ CommitApply(h) /\ txn'[i].applied = txn[i].applied + 1
  <2>1. h.id[2] \in M /\ h.id[2] \notin M2
    BY <1>8, ApplyUnapplied
  <2> HIDE DEF M, M2
  <2>2. /\ Cardinality(M2) \in Nat /\ Cardinality(M) \in Nat
        /\ Cardinality(M2) + 1 <= Cardinality(M)
    <3>1. M2 \subseteq M \ {h.id[2]}
      BY <1>3, <2>1
    <3> QED
      BY <1>3, <2>1, <3>1, OneLess
  <2>3. txn[i].applied + 1 + Cardinality(M2) <= handle[t].ends
    BY <1>2, <1>4, <1>5, <2>2
  <2> QED
    BY <1>8, <2>3 DEF M2
<1> QED
  BY <1>6, <1>7, <1>8

(* The other threads' requests are not touched by a step of a client. *)
LEMMA OthersUnapplied ==
    ASSUME TypeOK, Served, NEW t \in Threads, ClientStep(t), NEW u \in Threads, u # t
    PROVE  /\ Unapplied(u)' \subseteq Unapplied(u) /\ UNCHANGED txn
           /\ handle'[u] = handle[u]
<1>1. CASE Invoke(t)
  <2>1. /\ call'[u] = call[u] /\ handle'[u] = handle[u] /\ UNCHANGED <<serial, txn, running>>
    BY <1>1, InvokeParts
  <2> QED
    BY <2>1 DEF Unapplied, Applied
<1>2. CASE Send(t)
  <2>1. /\ call' = [call EXCEPT ![t] = Waits(t)] /\ serial' = [serial EXCEPT ![t] = serial[t] + 1]
        /\ running' = running \cup {Request(t)} /\ call[t] \in Call /\ UNCHANGED <<handle, txn>>
    BY <1>2, SendParts
  <2>2. call'[u] = call[u] /\ serial'[u] = serial[u]
    BY <2>1 DEF TypeOK
  <2>3. Request(t).by # u
    BY <2>1, RequestFields
  <2> QED
    BY <2>1, <2>2, <2>3 DEF Unapplied, Applied
<1>3. CASE Receive(t)
  <2> DEFINE n == NewPrimary(t)
  <2>1. /\ n \in Node /\ call' = [SawMove(t, n) EXCEPT ![t] = Idle]
        /\ handle'[u] = handle[u] /\ UNCHANGED <<serial, txn, running>>
    BY <1>3, ReceiveParts
  <2> HIDE DEF n
  <2>2. call'[u] = SawMove(t, n)[u]
    BY <2>1, SawMoveParts
  <2>3. \/ SawMove(t, n)[u] = call[u]
        \/ call[u] \in Call /\ SawMove(t, n)[u] = [call[u] EXCEPT !.moved = TRUE]
    <3>1. n \in Node
      BY <2>1
    <3> QED
      BY <3>1, OneSawMove
  <2>4. \A c \in Call : LET d == [c EXCEPT !.moved = TRUE] IN
           d.phase = c.phase /\ d.op = c.op /\ d.answer = c.answer
    BY DEF Call
  <2>5. call'[u].phase = call[u].phase /\ call'[u].op = call[u].op
        /\ call'[u].answer = call[u].answer
    BY <2>2, <2>3, <2>4
  <2> QED
    BY <2>1, <2>5 DEF Unapplied, Applied
<1>4. CASE Lose(t)
  <2>1. /\ call' = [call EXCEPT ![t] = Failed(t)] /\ running' \subseteq running
        /\ UNCHANGED <<serial, handle, txn>>
    BY <1>4, LoseParts
  <2>2. call'[u] = call[u]
    BY <2>1 DEF TypeOK
  <2> QED
    BY <2>1, <2>2 DEF Unapplied, Applied
<1>5. CASE Raise(t)
  <2>1. /\ call'[u] = call[u] /\ UNCHANGED <<serial, handle, txn, running>>
    BY <1>5 DEF Raise, TypeOK
  <2> QED
    BY <2>1 DEF Unapplied, Applied
<1> QED
  BY <1>1, <1>2, <1>3, <1>4, <1>5 DEF ClientStep

(* Of the thread's own requests a step other than a call to end its
   transaction, or the answer to one, makes none unapplied that was not. *)
LEMMA OwnUnapplied ==
    ASSUME TypeOK, Served, NEW t \in Threads, Send(t) \/ Lose(t) \/ Raise(t)
    PROVE  Unapplied(t)' \subseteq Unapplied(t) /\ UNCHANGED <<txn, handle>>
<1>1. CASE Send(t)
  <2>1. /\ call[t].phase = "calling" /\ call[t] \in Call
        /\ call' = [call EXCEPT ![t] = Waits(t)] /\ serial' = [serial EXCEPT ![t] = serial[t] + 1]
        /\ running' = running \cup {Request(t)} /\ UNCHANGED <<handle, txn>>
    BY <1>1, SendParts
  <2>2. call'[t] = Waits(t) /\ Waits(t).phase = "waiting"
    BY <2>1, RequestFields DEF TypeOK
  <2>3. Request(t).op = call[t].op /\ Request(t).id[2] = serial[t] + 1
    BY <2>1, RequestFields
  <2>4. \A n \in Unapplied(t)' :
           \/ \E h \in running' : /\ h.by = t /\ h.txn = handle[t].id /\ Ends(h.op)
                                  /\ ~Applied(h) /\ n = h.id[2]
           \/ n = 0 /\ handle[t].told \in {"refused", "aborted"}
    BY <2>1, <2>2 DEF Unapplied, Applied
  <2>5. \A n \in Unapplied(t)' : n \in Unapplied(t)
    BY <2>1, <2>3, <2>4, InUnapplied
  <2> QED
    BY <2>1, <2>5
<1>2. CASE Lose(t)
  <2>1. /\ call[t] \in Call /\ call' = [call EXCEPT ![t] = Failed(t)] /\ running' \subseteq running
        /\ UNCHANGED <<serial, handle, txn>>
    BY <1>2, LoseParts
  <2>2. call'[t] = Failed(t)
    BY <2>1 DEF TypeOK
  <2>3. Ends(call'[t].op) => call'[t].phase = "raised"
    <3>1. Failed(t).op = call[t].op
      BY <2>1, FailedFields
    <3>2. Ends(call[t].op) => ~Retries(t)
      BY DEF Ends, Retries, FailsOver, AutoCommit, Sql
    <3> QED
      BY <2>1, <2>2, <3>1, <3>2, FailedFields
  <2> QED
    BY <2>1, <2>3 DEF Unapplied, Applied
<1>3. CASE Raise(t)
  <2>1. /\ call'[t].phase = "idle" /\ UNCHANGED <<serial, handle, txn, running>>
    BY <1>3 DEF Raise, TypeOK, Idle
  <2> QED
    BY <2>1 DEF Unapplied, Applied
<1> QED
  BY <1>1, <1>2, <1>3

(* A call to end the transaction counts one more end. *)
LEMMA InvokeEnds ==
    ASSUME TypeOK, Served, EndsCount, NEW t \in Threads, Invoke(t), handle'[t].id # None
    PROVE  txn'[handle'[t].id].applied + Cardinality(Unapplied(t)') <= handle'[t].ends
<1>1. /\ call[t].phase = "idle" /\ handle'[t].id = handle[t].id /\ handle'[t].told = handle[t].told
      /\ UNCHANGED <<serial, txn, running>>
  BY InvokeParts
<1>2. PICK op \in Op : /\ call'[t] = Made(op)
                       /\ handle'[t].ends = IF Ends(op) THEN handle[t].ends + 1 ELSE handle[t].ends
  BY InvokeParts
<1> DEFINE i == handle[t].id
           M == Unapplied(t)
           M2 == Unapplied(t)'
           x == serial[t] + 1
<1>3. call'[t].phase = "calling" /\ call'[t].op = op
  BY <1>2 DEF Made
<1>4. IF Ends(op) THEN M2 \subseteq M \cup {x} ELSE M2 \subseteq M
  BY <1>1, <1>3 DEF Unapplied, Applied
<1>5. IsFiniteSet(M) /\ Cardinality(M) \in Nat
  BY UnappliedFinite
<1>6. txn[i].applied \in Nat /\ handle[t].ends \in Nat /\ txn[i].applied + Cardinality(M) <= handle[t].ends
  BY <1>1 DEF Served, HandlesFit, TypeOK, Txn, Handle, EndsCount
<1> HIDE DEF M, M2, x
<1>7. CASE Ends(op)
  <2>1. Cardinality(M2) \in Nat /\ Cardinality(M2) <= Cardinality(M) + 1
    BY <1>4, <1>5, <1>7, OneMore
  <2>2. txn[i].applied + Cardinality(M2) <= handle[t].ends + 1
    BY <1>5, <1>6, <2>1
  <2> QED
    BY <1>1, <1>2, <1>7, <2>2 DEF M2
<1>8. CASE ~Ends(op)
  <2>1. Cardinality(M2) \in Nat /\ Cardinality(M2) <= Cardinality(M)
    BY <1>4, <1>5, <1>8, NoMore
  <2>2. txn[i].applied + Cardinality(M2) <= handle[t].ends
    BY <1>5, <1>6, <2>1
  <2> QED
    BY <1>1, <1>2, <1>8, <2>2 DEF M2
<1> QED
  BY <1>7, <1>8

(* A new handle has not been ended; a caller that is told its transaction is
   not applied knows of one request that has not applied it. *)
LEMMA ReceiveEnds ==
    ASSUME TypeOK, Served, EndsCount, NEW t \in Threads, Receive(t), handle'[t].id # None
    PROVE  txn'[handle'[t].id].applied + Cardinality(Unapplied(t)') <= handle'[t].ends
<1> DEFINE c == call[t]
           M == Unapplied(t)
           M2 == Unapplied(t)'
<1>1. /\ c.phase = "answered" /\ c \in Call
      /\ call' = [SawMove(t, NewPrimary(t)) EXCEPT ![t] = Idle] /\ NewPrimary(t) \in Node
      /\ UNCHANGED <<serial, txn, running>>
  BY ReceiveParts
<1>2. call'[t].phase = "idle"
  BY <1>1, SawMoveParts DEF Idle
<1>3. \A n \in M2 :
         \/ \E h \in running : /\ h.by = t /\ h.txn = handle'[t].id /\ Ends(h.op)
                               /\ ~Applied(h) /\ n = h.id[2]
         \/ n = 0 /\ handle'[t].told \in {"refused", "aborted"}
  BY <1>1, <1>2 DEF Unapplied, Applied
<1>4. IsFiniteSet(M) /\ Cardinality(M) \in Nat
  BY UnappliedFinite
<1>5. c.id = <<t, serial[t]>> /\ \A h \in running : h.id # c.id
  BY <1>1 DEF Served, RequestsNamed, Sent
<1>6. \A h \in running : h.by = t => /\ h.id \in Id /\ h.id[1] = t /\ h.id[2] <= serial[t]
                                     /\ h.id[2] \in Nat /\ h.id[2] # serial[t]
  <2> SUFFICES ASSUME NEW h \in running, h.by = t
               PROVE  /\ h.id \in Id /\ h.id[1] = t /\ h.id[2] <= serial[t]
                      /\ h.id[2] \in Nat /\ h.id[2] # serial[t]
    OBVIOUS
  <2>1. h.id \in Id /\ h.id[1] = t /\ h.id[2] <= serial[t] /\ h.id[2] \in Nat
    BY HandlerParts DEF Served, RequestsNamed, Id
  <2> QED
    BY <1>5, <2>1 DEF Id
<1>7. serial[t] \in Nat
  BY DEF TypeOK
<1>8. CASE c.op.kind = "begin"
  <2>1. handle'[t].id = c.id /\ handle'[t].told = None /\ handle'[t].ends = 0
    <3>1. handle'[t] = [node |-> c.node, id |-> c.id, told |-> None, ends |-> 0]
      BY <1>8, ReceiveParts
    <3> QED
      BY <3>1
  <2>2. txn[c.id].applied = 0
    BY <1>1, <1>8 DEF Served, HandlesFit
  <2>3. M2 = {}
    <3> SUFFICES ASSUME NEW n \in M2 PROVE FALSE
      OBVIOUS
    <3>1. None \notin {"refused", "aborted"}
      BY ClusterAssumption DEF Verdict
    <3>2. PICK h \in running : h.by = t /\ h.txn = c.id /\ Ends(h.op)
      BY <1>3, <2>1, <3>1
    <3>3. Pinned(h.op)
      BY <3>2 DEF Ends, Pinned, FailsOver, AutoCommit, Sql
    <3>4. h.txn[2] < h.id[2] /\ h.txn[2] = serial[t]
      BY <1>5, <3>2, <3>3 DEF Served, HandlesFit
    <3> QED
      BY <1>6, <1>7, <3>2, <3>4
  <2>4. Cardinality(M2) = 0
    BY <2>3, FS_EmptySet
  <2> QED
    BY <1>1, <2>1, <2>2, <2>4
<1>9. CASE c.op.kind # "begin"
  <2> DEFINE i == handle[t].id
  <2>1. handle'[t].id = i /\ handle'[t].ends = handle[t].ends
    BY <1>9, ReceiveParts
  <2>2. /\ txn[i].applied \in Nat /\ handle[t].ends \in Nat
        /\ txn[i].applied + Cardinality(M) <= handle[t].ends
    <3>1. i \in DOMAIN txn /\ txn[i].applied + Cardinality(M) <= handle[t].ends
      BY <2>1 DEF Served, HandlesFit, EndsCount
    <3>2. handle[t] \in Handle /\ txn[i] \in Txn
      BY <3>1 DEF TypeOK
    <3> QED
      BY <3>1, <3>2 DEF Txn, Handle
  <2>3. \A n \in M2 : n \in M \/ (n = 0 /\ handle'[t].told \in {"refused", "aborted"})
    <3> SUFFICES ASSUME NEW n \in M2, ~(n = 0 /\ handle'[t].told \in {"refused", "aborted"})
                 PROVE  n \in M
      OBVIOUS
    <3>1. \E h \in running : /\ h.by = t /\ h.txn = handle'[t].id /\ Ends(h.op)
                              /\ ~Applied(h) /\ n = h.id[2]
      BY <1>3
    <3>2. PICK h \in running : /\ h.by = t /\ h.txn = i /\ Ends(h.op)
                               /\ ~Applied(h) /\ n = h.id[2]
      BY <2>1, <3>1
    <3>3. n \in Unapplied(t)
      BY <3>2, InUnapplied
    <3> QED
      BY <3>3 DEF M
  <2>4. Cardinality(M2) \in Nat /\ Cardinality(M2) <= Cardinality(M)
    <3>1. CASE handle'[t].told = handle[t].told
      <4>1. M2 \subseteq M
        <5>1. handle[t].told \in {"refused", "aborted"} => 0 \in Unapplied(t)
          BY InUnapplied
        <5>2. handle[t].told \in {"refused", "aborted"} => 0 \in M
          BY <5>1 DEF M
        <5> QED
          BY <2>3, <3>1, <5>2
      <4> HIDE DEF M, M2
      <4> QED
        BY <1>4, <4>1, NoMore
    <3>2. CASE handle'[t].told # handle[t].told
      <4>1. \/ c.op.kind = "commit" /\ handle'[t].told = c.answer
            \/ c.op.kind = "abort" /\ handle'[t].told = "aborted"
        BY <1>9, <3>2, ReceiveParts
      <4>2. CASE handle'[t].told \notin {"refused", "aborted"}
        <5>1. M2 \subseteq M
          BY <2>3, <4>2
        <5> HIDE DEF M, M2
        <5> QED
          BY <1>4, <5>1, NoMore
      <4>3. CASE handle'[t].told \in {"refused", "aborted"}
        <5>1. Ends(c.op) /\ ~(c.op.kind = "commit" /\ c.answer = "ok")
          BY <4>1, <4>3 DEF Ends
        <5>2. serial[t] \in M
          BY <1>1, <5>1, InUnapplied
        <5>3. \A n \in M2 : n # 0 => n \in M /\ n # serial[t]
          BY <1>3, <1>6, <2>3
        <5>4. M2 \subseteq (M \ {serial[t]}) \cup {0}
          BY <5>3
        <5> HIDE DEF M, M2
        <5> QED
          BY <1>4, <5>2, <5>4, OneOther
      <4> QED
        BY <4>2, <4>3
    <3> QED
      BY <3>1, <3>2
  <2> HIDE DEF M, M2
  <2>5. txn[i].applied + Cardinality(M2) <= handle[t].ends
    BY <1>4, <2>2, <2>4
  <2> QED
    BY <1>1, <2>1, <2>5 DEF M2
<1> QED
  BY <1>8, <1>9

(* The requests that may still apply are within the ends the handle counted. *)
LEMMA ClientEnds ==
    ASSUME TypeOK, Served, EndsCount, NEW t \in Threads, ClientStep(t)
    PROVE  EndsCount'
<1> SUFFICES ASSUME NEW u \in Threads, handle'[u].id # None
             PROVE  txn'[handle'[u].id].applied + Cardinality(Unapplied(u)') <= handle'[u].ends
  BY DEF EndsCount
<1>1. CASE u = t /\ Invoke(t)
  BY <1>1, InvokeEnds
<1>2. CASE u = t /\ Receive(t)
  BY <1>2, ReceiveEnds
<1>3. CASE u # t \/ Send(t) \/ Lose(t) \/ Raise(t)
  <2> DEFINE i == handle[u].id
             M == Unapplied(u)
             M2 == Unapplied(u)'
  <2>1. M2 \subseteq M /\ UNCHANGED txn /\ handle'[u] = handle[u]
    <3>1. CASE u # t
      BY <3>1, OthersUnapplied
    <3>2. CASE u = t
      BY <1>3, <3>2, OwnUnapplied
    <3> QED
      BY <3>1, <3>2
  <2>2. IsFiniteSet(M)
    BY UnappliedFinite
  <2>3. txn[i].applied \in Nat /\ handle[u].ends \in Nat
        /\ txn[i].applied + Cardinality(M) <= handle[u].ends
    BY <2>1 DEF Served, HandlesFit, TypeOK, Txn, Handle, EndsCount
  <2> HIDE DEF M, M2
  <2>4. Cardinality(M2) \in Nat /\ Cardinality(M) \in Nat /\ Cardinality(M2) <= Cardinality(M)
    BY <2>1, <2>2, NoMore
  <2>5. txn[i].applied + Cardinality(M2) <= handle[u].ends
    BY <2>3, <2>4
  <2> QED
    BY <2>1, <2>5 DEF M2
<1> QED
  BY <1>1, <1>2, <1>3 DEF ClientStep

(* A restart applies nothing. *)
LEMMA RestartEnds ==
    ASSUME TypeOK, Served, EndsCount, NEW n \in Node, Restart(n)
    PROVE  EndsCount'
<1>1. /\ running' \subseteq running
      /\ \A i \in DOMAIN txn : txn'[i].applied = txn[i].applied
      /\ UNCHANGED <<call, serial, handle>>
  BY RestartParts
<1> SUFFICES ASSUME NEW t \in Threads, handle[t].id # None
             PROVE  txn'[handle[t].id].applied + Cardinality(Unapplied(t)') <= handle[t].ends
  BY <1>1 DEF EndsCount
<1> DEFINE i == handle[t].id
           M == Unapplied(t)
           M2 == Unapplied(t)'
<1>2. M2 \subseteq M
  BY <1>1 DEF Unapplied, Applied
<1>3. IsFiniteSet(M)
  BY UnappliedFinite
<1>4. /\ txn[i].applied \in Nat /\ handle[t].ends \in Nat /\ i \in DOMAIN txn
      /\ txn[i].applied + Cardinality(M) <= handle[t].ends
  BY DEF Served, HandlesFit, TypeOK, Txn, Handle, EndsCount
<1> HIDE DEF M, M2
<1>5. Cardinality(M2) \in Nat /\ Cardinality(M) \in Nat /\ Cardinality(M2) <= Cardinality(M)
  BY <1>2, <1>3, NoMore
<1>6. txn[i].applied + Cardinality(M2) <= handle[t].ends
  BY <1>4, <1>5
<1> QED
  BY <1>1, <1>4, <1>6 DEF M2

(* Success is only told when the commit has applied. *)
LEMMA StepSuccess ==
    ASSUME TypeOK, Served, SuccessIsApplied, NEW h \in running, ServerStep(h), Step(h)
    PROVE  SuccessIsApplied'
<1>1. /\ GoOn(h) /\ UNCHANGED handle /\ TxnsGoOn(h)
      /\ HandlesFit /\ StepsFit /\ Awaited /\ RequestsNamed
  BY DEF Step, Serves, Served
<1>2. \A i \in DOMAIN txn : txn[i].applied >= 1 => txn'[i].applied >= 1
  <2> SUFFICES ASSUME NEW i \in DOMAIN txn, txn[i].applied >= 1 PROVE txn'[i].applied >= 1
    OBVIOUS
  <2>1. txn[i].applied \in Nat
    BY DEF TypeOK, Txn
  <2>2. txn'[i].applied = txn[i].applied \/ txn'[i].applied = txn[i].applied + 1
    BY <1>1 DEF TxnsGoOn
  <2> QED
    BY <2>1, <2>2
<1>3. \A f \in running : Applied(f) => f.txn \in DOMAIN txn /\ txn[f.txn].applied >= 1
  <2> SUFFICES ASSUME NEW f \in running, Applied(f)
               PROVE  f.txn \in DOMAIN txn /\ txn[f.txn].applied >= 1
    OBVIOUS
  <2>1. Pinned(f.op)
    BY <1>1 DEF Applied, StepsFit, Pinned, FailsOver, AutoCommit, Sql
  <2> QED
    BY <1>1, <2>1 DEF SuccessIsApplied, HandlesFit
<1>4. (\A g \in running : Applied(g) => txn[g.txn].applied >= 1)'
  <2> SUFFICES ASSUME NEW g \in running', Applied(g) PROVE txn'[g.txn].applied >= 1
    BY DEF Applied
  <2>1. CASE g.id # h.id
    <3>1. PICK f \in running : Same(g, f) /\ SameWork(g, f)
      BY <1>1, <2>1, OtherSame
    <3>2. Applied(f) /\ g.txn = f.txn
      BY <3>1 DEF Same, SameWork, Applied
    <3> QED
      BY <1>2, <1>3, <3>2
  <2>2. CASE g.id = h.id
    <3>1. Moved(h, g) /\ h \in Handler
      BY <2>2, StepMoves, HandlerParts
    <3>2. \A a : AtEnd(h, a).result = a /\ AtEnd(h, a).txn = h.txn
      BY <3>1 DEF AtEnd, Handler
    <3>3. \A s : At(h, s).step = s
      BY <3>1 DEF At, Handler
    <3>4. Scanned(h).step = "writing" /\ \A k \in DOMAIN h.todo : Wrote(h, k).step = h.step
      BY <3>1 DEF Scanned, Wrote, Handler
    <3>5. CommitApply(h) /\ g.txn = h.txn
      BY <3>1, <3>2, <3>3, <3>4 DEF Moved, Applied
    <3>6. txn'[h.txn].applied = txn[h.txn].applied + 1 /\ h.txn \in DOMAIN txn
      BY <3>5, CommitApplyStep
    <3>7. txn[h.txn].applied \in Nat
      BY <3>6 DEF TypeOK, Txn
    <3> QED
      BY <3>5, <3>6, <3>7
  <2> QED
    BY <2>1, <2>2
<1>5. (\A t \in Threads : call[t].phase = "answered" /\ call[t].op.kind = "commit"
          /\ call[t].answer = "ok" => txn[handle[t].id].applied >= 1)'
  <2> SUFFICES ASSUME NEW t \in Threads, call'[t].phase = "answered",
                      call'[t].op.kind = "commit", call'[t].answer = "ok"
               PROVE  txn'[handle[t].id].applied >= 1
    BY <1>1
  <2>1. CASE call'[t] = call[t]
    <3>1. txn[handle[t].id].applied >= 1
      BY <2>1 DEF SuccessIsApplied
    <3>2. handle[t].id \in DOMAIN txn
      BY <1>1, <2>1 DEF HandlesFit, Pinned, FailsOver, AutoCommit, Sql
    <3> QED
      BY <1>2, <3>1, <3>2
  <2>2. CASE call'[t] # call[t]
    <3>1. GetsAnswer(h, t)
      BY <2>2, CallGoesOn
    <3>2. h.op = call'[t].op /\ h.txn = handle[t].id
      BY <1>1, <3>1 DEF GetsAnswer, Awaited
    <3>3. Applied(h)
      BY <2>2, <3>1, <3>2, CommitAnswers DEF Ends
    <3> QED
      BY <1>2, <1>3, <3>2, <3>3
  <2> QED
    BY <2>1, <2>2
<1>6. (\A t \in Threads : handle[t].told = "ok" =>
          handle[t].id # None /\ txn[handle[t].id].applied >= 1)'
  BY <1>1, <1>2 DEF SuccessIsApplied, HandlesFit
<1>7. (\A t \in Threads : handle[t].id = None => handle[t].told = None)'
  BY <1>1 DEF SuccessIsApplied
<1> QED
  BY <1>4, <1>5, <1>6, <1>7 DEF SuccessIsApplied

(* A client takes no applied commit back. *)
LEMMA ClientSuccess ==
    ASSUME TypeOK, Served, SuccessIsApplied, NEW t \in Threads, ClientStep(t)
    PROVE  SuccessIsApplied'
<1>0. None # "ok"
  BY ClusterAssumption DEF Verdict
<1>1. CASE Invoke(t)
  <2>1. /\ \A u \in Threads : /\ u # t => call'[u] = call[u]
                              /\ handle'[u].id = handle[u].id /\ handle'[u].told = handle[u].told
        /\ UNCHANGED <<txn, running>>
    BY <1>1, InvokeParts
  <2>2. call'[t].phase = "calling"
    <3>1. PICK op \in Op : call'[t] = Made(op)
      BY <1>1, InvokeParts
    <3> QED
      BY <3>1 DEF Made
  <2> QED
    BY <2>1, <2>2 DEF SuccessIsApplied, Applied
<1>2. CASE Send(t)
  <2>1. /\ call' = [call EXCEPT ![t] = Waits(t)] /\ call[t] \in Call
        /\ running' = running \cup {Request(t)} /\ UNCHANGED <<handle, txn>>
    BY <1>2, SendParts
  <2>2. call'[t].phase = "waiting" /\ \A u \in Threads : u # t => call'[u] = call[u]
    BY <2>1, RequestFields DEF TypeOK
  <2>3. ~Applied(Request(t))
    BY <2>1, RequestFields DEF Applied
  <2>4. \A h \in running' : Applied(h) => h \in running
    BY <2>1, <2>3
  <2> QED
    BY <2>1, <2>2, <2>4 DEF SuccessIsApplied, Applied
<1>3. CASE Receive(t)
  <2> DEFINE n == NewPrimary(t)
             c == call[t]
  <2>1. /\ n \in Node /\ call' = [SawMove(t, n) EXCEPT ![t] = Idle] /\ UNCHANGED <<txn, running>>
        /\ c.phase = "answered" /\ c \in Call
        /\ \A u \in Threads : u # t => handle'[u] = handle[u]
    BY <1>3, ReceiveParts
  <2> HIDE DEF n
  <2>2. call'[t].phase = "idle" /\ \A u \in Threads : u # t => call'[u] = SawMove(t, n)[u]
    BY <2>1, SawMoveParts DEF Idle
  <2>3. \A u \in Threads :
           \/ SawMove(t, n)[u] = call[u]
           \/ call[u] \in Call /\ SawMove(t, n)[u] = [call[u] EXCEPT !.moved = TRUE]
    <3>1. n \in Node
      BY <2>1
    <3> QED
      BY <3>1, OneSawMove
  <2>4. \A d \in Call : LET e == [d EXCEPT !.moved = TRUE] IN
           e.phase = d.phase /\ e.op = d.op /\ e.answer = d.answer
    BY DEF Call
  <2>5. \A u \in Threads : u # t => /\ call'[u].phase = call[u].phase /\ call'[u].op = call[u].op
                                    /\ call'[u].answer = call[u].answer
    BY <2>2, <2>3, <2>4
  <2>6. (\A h \in running : Applied(h) => txn[h.txn].applied >= 1)'
    BY <2>1 DEF SuccessIsApplied, Applied
  <2>7. (\A u \in Threads : call[u].phase = "answered" /\ call[u].op.kind = "commit"
            /\ call[u].answer = "ok" => txn[handle[u].id].applied >= 1)'
    BY <2>1, <2>2, <2>5 DEF SuccessIsApplied
  <2>8. /\ handle'[t].told = "ok" => handle'[t].id # None /\ txn[handle'[t].id].applied >= 1
        /\ handle'[t].id = None => handle'[t].told = None
    <3>1. CASE c.op.kind = "begin"
      <4>1. handle'[t] = [node |-> c.node, id |-> c.id, told |-> None, ends |-> 0]
        BY <3>1, <1>3, ReceiveParts
      <4> QED
        BY <1>0, <4>1
    <3>2. CASE c.op.kind \in {"commit", "abort"}
      <4>1. Pinned(c.op)
        BY <3>2 DEF Pinned, FailsOver, AutoCommit, Sql
      <4>2. handle[t].id # None
        BY <2>1, <4>1 DEF Served, HandlesFit
      <4>3. handle'[t].id = handle[t].id /\
            handle'[t].told = IF c.op.kind = "commit" THEN c.answer ELSE "aborted"
        BY <1>3, <3>2, ReceiveParts
      <4> QED
        BY <2>1, <3>2, <4>2, <4>3 DEF SuccessIsApplied
    <3>3. CASE c.op.kind \notin {"begin", "commit", "abort"}
      <4>1. handle'[t].id = handle[t].id /\ handle'[t].told = handle[t].told
        BY <1>3, <3>3, ReceiveParts
      <4> QED
        BY <4>1 DEF SuccessIsApplied
    <3> QED
      BY <3>1, <3>2, <3>3
  <2>9. (\A u \in Threads : handle[u].told = "ok" =>
            handle[u].id # None /\ txn[handle[u].id].applied >= 1)'
    BY <2>1, <2>8 DEF SuccessIsApplied
  <2>10. (\A u \in Threads : handle[u].id = None => handle[u].told = None)'
    BY <2>1, <2>8 DEF SuccessIsApplied
  <2> QED
    BY <2>6, <2>7, <2>9, <2>10 DEF SuccessIsApplied
<1>4. CASE Lose(t)
  <2>1. /\ call[t] \in Call /\ call' = [call EXCEPT ![t] = Failed(t)] /\ running' \subseteq running
        /\ UNCHANGED <<handle, txn>>
    BY <1>4, LoseParts
  <2>2. call'[t].phase \in {"calling", "raised"} /\ \A u \in Threads : u # t => call'[u] = call[u]
    BY <2>1, FailedFields DEF TypeOK
  <2> QED
    BY <2>1, <2>2 DEF SuccessIsApplied, Applied
<1>5. CASE Raise(t)
  <2>1. /\ call'[t].phase = "idle" /\ \A u \in Threads : u # t => call'[u] = call[u]
        /\ UNCHANGED <<handle, txn, running>>
    BY <1>5 DEF Raise, TypeOK, Idle
  <2> QED
    BY <2>1 DEF SuccessIsApplied, Applied
<1> QED
  BY <1>1, <1>2, <1>3, <1>4, <1>5 DEF ClientStep

(* What was applied stays applied over a restart. *)
LEMMA RestartSuccess ==
    ASSUME TypeOK, Served, SuccessIsApplied, NEW n \in Node, Restart(n)
    PROVE  SuccessIsApplied'
<1>1. /\ running' \subseteq running
      /\ \A i \in DOMAIN txn : txn'[i].applied = txn[i].applied
      /\ UNCHANGED <<call, handle>>
  BY RestartParts
<1>2. \A h \in running : Applied(h) => h.txn \in DOMAIN txn
  BY DEF Applied, Served, StepsFit, HandlesFit, Pinned, FailsOver, AutoCommit, Sql
<1>3. \A t \in Threads : call[t].phase = "answered" /\ call[t].op.kind = "commit" =>
         handle[t].id \in DOMAIN txn
  BY DEF Served, HandlesFit, Pinned, FailsOver, AutoCommit, Sql
<1>4. \A t \in Threads : handle[t].id # None => handle[t].id \in DOMAIN txn
  BY DEF Served, HandlesFit
<1> QED
  BY <1>1, <1>2, <1>3, <1>4 DEF SuccessIsApplied, Applied

(* Counting and success together are what the caller is promised. *)
LEMMA CountsAreTruthful ==
    ASSUME TypeOK, Served, EndsCount, SuccessIsApplied
    PROVE  CommitTruthful
<1> SUFFICES ASSUME NEW t \in Threads, handle[t].id \in DOMAIN txn
             PROVE  LET done == txn[handle[t].id].applied IN
                    /\ handle[t].told = "ok" => done >= 1
                    /\ handle[t].told \in {"refused", "aborted"} /\ handle[t].ends = 1 => done = 0
                    /\ done <= handle[t].ends
  BY DEF CommitTruthful
<1> DEFINE done == txn[handle[t].id].applied
           M == Unapplied(t)
<1>1. handle[t].id # None
  BY ClusterAssumption DEF TypeOK
<1>2. done + Cardinality(M) <= handle[t].ends
  BY <1>1 DEF EndsCount
<1>3. IsFiniteSet(M) /\ Cardinality(M) \in Nat
  BY UnappliedFinite
<1>4. done \in Nat /\ handle[t].ends \in Nat
  <2>1. handle[t] \in Handle /\ txn[handle[t].id] \in Txn
    BY DEF TypeOK
  <2> QED
    BY <2>1 DEF Handle, Txn
<1>5. handle[t].told = "ok" => done >= 1
  BY DEF SuccessIsApplied
<1>6. handle[t].told \in {"refused", "aborted"} => Cardinality(M) # 0
  <2> SUFFICES ASSUME handle[t].told \in {"refused", "aborted"} PROVE Cardinality(M) # 0
    OBVIOUS
  <2>1. 0 \in M
    BY InUnapplied
  <2> QED
    BY <1>3, <2>1, FS_EmptySet
<1> HIDE DEF done, M
<1>7. handle[t].told \in {"refused", "aborted"} /\ handle[t].ends = 1 => done = 0
  BY <1>2, <1>3, <1>4, <1>6
<1>8. done <= handle[t].ends
  BY <1>2, <1>3, <1>4
<1> QED
  BY <1>5, <1>7, <1>8 DEF done

-----------------------------------------------------------------------------
(* The invariant holds of every reachable state. *)

Invariant ==
    /\ TypeOK /\ Served /\ AskedInTurn /\ Reads /\ NotFoundMeansEnded
    /\ StatementsFit /\ EndsCount /\ SuccessIsApplied

(* At first nothing is sent, no transaction is begun and nobody waits. *)
LEMMA InitInvariant == Init => Invariant
<1> SUFFICES ASSUME Init PROVE Invariant
  OBVIOUS
<1>1. TypeOK
  BY InitTypeOK
<1>2. \A t \in Threads : /\ call[t].phase = "idle" /\ handle[t].id = None
                         /\ handle[t].told = None /\ recent[t] = None
  BY DEF Init, Idle, NoHandle
<1>3. running = {} /\ DOMAIN txn = {}
  BY DEF Init
<1>4. Served
  BY <1>2, <1>3 DEF Served, RequestsNamed, HandlesFit, Awaited, StepsFit, Sent
<1>5. AskedInTurn /\ Reads /\ NotFoundMeansEnded
  BY <1>2 DEF AskedInTurn, Reads, RecentIsThere, ReadsOwnPut, NotFoundMeansEnded
<1>6. StatementsFit /\ EndsCount
  BY <1>2, <1>3 DEF StatementsFit, EndsCount
<1>7. SuccessIsApplied
  <2>1. None # "ok"
    BY ClusterAssumption DEF Verdict
  <2> QED
    BY <1>2, <1>3, <2>1 DEF SuccessIsApplied
<1> QED
  BY <1>1, <1>4, <1>5, <1>6, <1>7 DEF Invariant

(* A step of a client keeps the invariant. *)
LEMMA ClientKeeps ==
    ASSUME Invariant, NEW t \in Threads, ClientStep(t)
    PROVE  Invariant'
<1>1. TypeOK /\ Served /\ AskedInTurn /\ Reads /\ NotFoundMeansEnded
      /\ StatementsFit /\ EndsCount /\ SuccessIsApplied
  BY DEF Invariant
<1>2. TypeOK'
  BY <1>1, InvokeTypes, SendTypes, ReceiveTypes, LoseTypes, RaiseTypes DEF ClientStep
<1>3. Served'
  BY <1>1, InvokeServed, SendServed, ReceiveServed, LoseServed, RaiseServed DEF ClientStep
<1>4. AskedInTurn'
  BY <1>1, <1>2, ClientKeepsTurns
<1>5. Reads'
  BY <1>1, <1>2, ClientReads
<1>6. NotFoundMeansEnded'
  BY <1>1, ClientNotFound
<1>7. StatementsFit'
  BY <1>1, ClientStatements
<1>8. EndsCount'
  BY <1>1, ClientEnds
<1>9. SuccessIsApplied'
  BY <1>1, ClientSuccess
<1> QED
  BY <1>2, <1>3, <1>4, <1>5, <1>6, <1>7, <1>8, <1>9 DEF Invariant

(* A step of a server keeps the invariant. *)
LEMMA ServerKeeps ==
    ASSUME Invariant, NEW h \in running, ServerStep(h)
    PROVE  Invariant'
<1>1. TypeOK /\ Served /\ AskedInTurn /\ Reads /\ NotFoundMeansEnded
      /\ StatementsFit /\ EndsCount /\ SuccessIsApplied
  BY DEF Invariant
<1>2. Step(h)
  BY <1>1, ServerStepIsStep
<1>3. TypeOK'
  BY <1>1, <1>2, StepTypes
<1>4. Served'
  BY <1>1, <1>2, StepNames, StepHandles, StepAwaited, StepSteps DEF Served
<1>5. AskedInTurn'
  BY <1>1, <1>2, StepKeepsTurns
<1>6. Reads'
  BY <1>1, <1>2, StepReads
<1>7. NotFoundMeansEnded'
  BY <1>1, <1>2, StepNotFound
<1>8. StatementsFit'
  BY <1>1, <1>2, StepStatements
<1>9. EndsCount'
  BY <1>1, <1>2, StepEnds
<1>10. SuccessIsApplied'
  BY <1>1, <1>2, StepSuccess
<1> QED
  BY <1>3, <1>4, <1>5, <1>6, <1>7, <1>8, <1>9, <1>10 DEF Invariant

(* The restart of a node keeps the invariant. *)
LEMMA RestartKeeps ==
    ASSUME Invariant, NEW n \in Node, Restart(n)
    PROVE  Invariant'
<1>1. TypeOK /\ Served /\ AskedInTurn /\ Reads /\ NotFoundMeansEnded
      /\ StatementsFit /\ EndsCount /\ SuccessIsApplied
  BY DEF Invariant
<1>2. running' \subseteq running /\ UNCHANGED <<primary, call, recent, rows>>
  BY <1>1, RestartParts
<1>3. TypeOK' /\ Served'
  BY <1>1, RestartTypes, RestartServed
<1>4. AskedInTurn'
  BY <1>1, <1>2 DEF AskedInTurn, Sent
<1>5. Reads'
  BY <1>1, <1>2 DEF Reads, RecentIsThere, ReadsOwnPut, Sent
<1>6. NotFoundMeansEnded'
  BY <1>1, RestartNotFound
<1>7. StatementsFit'
  BY <1>1, <1>2 DEF StatementsFit
<1>8. EndsCount' /\ SuccessIsApplied'
  BY <1>1, RestartEnds, RestartSuccess
<1> QED
  BY <1>3, <1>4, <1>5, <1>6, <1>7, <1>8 DEF Invariant

(* A step that changes nothing keeps the invariant. *)
LEMMA StutterKeeps ==
    ASSUME Invariant, UNCHANGED vars
    PROVE  Invariant'
<1>1. TypeOK /\ Served /\ AskedInTurn /\ Reads /\ NotFoundMeansEnded
      /\ StatementsFit /\ EndsCount /\ SuccessIsApplied
  BY DEF Invariant
<1>2. UNCHANGED <<primary, call, serial, handle, recent, txn, rows, running>>
  BY DEF vars, clientVars
<1>3. TypeOK' /\ Served'
  BY <1>1, StutterServed
<1>4. AskedInTurn' /\ NotFoundMeansEnded' /\ StatementsFit'
  BY <1>1, <1>2 DEF AskedInTurn, NotFoundMeansEnded, StatementsFit, Sent
<1>5. Reads' /\ SuccessIsApplied'
  BY <1>1, <1>2 DEF Reads, RecentIsThere, ReadsOwnPut, SuccessIsApplied, Applied, Sent
<1>6. EndsCount'
  <2>1. \A t \in Threads : Unapplied(t)' = Unapplied(t)
    BY <1>2 DEF Unapplied, Applied
  <2> QED
    BY <1>1, <1>2, <2>1 DEF EndsCount
<1> QED
  BY <1>3, <1>4, <1>5, <1>6 DEF Invariant

(* Every behaviour of the clients and the servers keeps the invariant. *)
THEOREM InvariantHolds == Spec => []Invariant
<1>1. Invariant /\ [Next]_vars => Invariant'
  BY ClientKeeps, ServerKeeps, RestartKeeps, StutterKeeps DEF Next
<1> QED
  BY InitInvariant, <1>1, PTL DEF Spec

-----------------------------------------------------------------------------
(* What clients may rely on *)

(* Every variable of the clients and the servers keeps its type. *)
THEOREM TypeCorrect == Spec => []TypeOK
<1>1. Invariant => TypeOK
  BY DEF Invariant
<1> QED
  BY InvariantHolds, <1>1, PTL

(* What commit tells its caller is true for good: success is told of writes
   that are in the store, refusal of a transaction that no other request
   ended is told of writes that are not, and each request to end it applies
   it at most once (RemoteTransaction.commit, SpanServer.CommitTransaction). *)
THEOREM CommitsAreTruthful == Spec => []CommitTruthful
<1>1. Invariant => CommitTruthful
  BY CountsAreTruthful DEF Invariant
<1> QED
  BY InvariantHolds, <1>1, PTL

(* An autocommit call or a begin is raised to its caller only after every
   node was asked, unless another thread moved the primary (_call). *)
THEOREM RaisedAfterAllNodes == Spec => []EveryNodeAsked
<1>1. Invariant => EveryNodeAsked
  BY DEF Invariant, AskedInTurn, EveryNodeAsked
<1> QED
  BY InvariantHolds, <1>1, PTL

(* A live transaction is never answered NOT_FOUND: its calls go to the node
   it began on, wherever the primary has moved (RemoteTransaction). *)
THEOREM LiveTransactionsAreFound == Spec => []NotFoundMeansEnded
<1>1. Invariant => NotFoundMeansEnded
  BY DEF Invariant
<1> QED
  BY InvariantHolds, <1>1, PTL

(* A thread reads the put it was told has succeeded, as long as nobody
   overwrote it or moved the primary (DistributedClient._primary). *)
THEOREM OwnPutsAreRead == Spec => []ReadsOwnPut
<1>1. Invariant => ReadsOwnPut
  BY DEF Invariant, Reads
<1> QED
  BY InvariantHolds, <1>1, PTL

(* An UPDATE or DELETE during which nobody else wrote to its node changed
   exactly the rows its WHERE clause selects (_execute_update,
   _execute_delete). *)
THEOREM AloneStatementsAreExact == Spec => []AloneStatementExact
<1>1. Invariant => AloneStatementExact
  BY DEF Invariant, StatementsFit, AloneStatementExact
<1> QED
  BY InvariantHolds, <1>1, PTL
==============================================================================
