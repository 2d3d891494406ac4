--------------------------- MODULE WarehouseProofs ---------------------------
(***************************************************************************)
(* Proofs about Warehouse for any tables, threads, statements, uploads,    *)
(* failures and crashes: the store holds what it lists; a cache entry that *)
(* can be addressed holds rows of the versions listed only, and is exact   *)
(* if no partition is missing and what it was pruned by is about all it    *)
(* reads; on the last condition so is every answer that no upload or       *)
(* delete disturbed.  Zone-map pruning is sound: a partition that holds a  *)
(* row satisfying every conjunct is never skipped.                         *)
(***************************************************************************)
EXTENDS Warehouse, TLAPS, WellFoundedInduction

(* A set of naturals that is not empty has a least element. *)
LEMMA Least ==
    ASSUME NEW S \in SUBSET Nat, S # {}
    PROVE  Min(S) \in S /\ \A y \in S : Min(S) <= y
  <1>1. PICK x \in S : \A y \in S : ~(<<y, x>> \in OpToRel(<, Nat))
    BY WFMin, NatLessThanWellFounded
  <1>2. \A y \in S : x <= y
    <2>1. TAKE y \in S
    <2>2. y \in Nat /\ x \in Nat OBVIOUS
    <2>3. ~(y < x)
      BY <1>1, <2>2 DEF OpToRel
    <2> QED BY <2>2, <2>3, SMT
  <1> QED BY <1>2 DEF Min

(* A bounded set of naturals that is not empty has a greatest element. *)
LEMMA Greatest ==
    ASSUME NEW top \in Nat, NEW S \in SUBSET (0..top), S # {}
    PROVE  Max(S) \in S /\ \A y \in S : y <= Max(S)
  <1> DEFINE Gaps == {top - x : x \in S}
  <1>1. \A x \in S : x \in Nat /\ top - x \in Nat
    BY SMT
  <1>2. Gaps \in SUBSET Nat /\ Gaps # {}
    BY <1>1, Zenon
  <1>3. PICK m \in Gaps : \A g \in Gaps : m <= g
    BY <1>2, Least
  <1>4. PICK x \in S : m = top - x
    BY <1>3
  <1>5. \A y \in S : x >= y
    <2>1. TAKE y \in S
    <2>2. top - x <= top - y
      BY <1>3, <1>4
    <2>3. x \in Nat /\ y \in Nat
      BY <1>1
    <2> QED BY <2>2, <2>3, SMT
  <1>6. Max(S) \in S /\ \A y \in S : Max(S) >= y
    BY <1>5 DEF Max
  <1>7. \A y \in S : y <= Max(S)
    BY <1>1, <1>6, SMT
  <1> QED BY <1>6, <1>7

(* The zone of a partition bounds every value in it that is not NULL. *)
LEMMA ZoneBounds ==
    ASSUME NEW part \in SUBSET Column, NEW x \in part, x # Null
    PROVE  /\ ZoneMap(part).min \in part \ {Null} /\ ZoneMap(part).min <= x
           /\ ZoneMap(part).max \in part \ {Null} /\ x <= ZoneMap(part).max
<1> DEFINE known == part \ {Null}
<1>1. known \in SUBSET (0..MaxValue) /\ x \in known /\ MaxValue \in Nat
    BY WarehouseBounds DEF Column
<1>2. known \in SUBSET Nat
    BY <1>1
<1>3. Min(known) \in known /\ Min(known) <= x
    BY <1>1, <1>2, Least
<1>4. Max(known) \in known /\ x <= Max(known)
    BY <1>1, Greatest
<1>5. ZoneMap(part) = [min |-> Min(known), max |-> Max(known)]
    BY <1>1 DEF ZoneMap
<1> QED BY <1>3, <1>4, <1>5

(* A conjunct that holds of a value does not rule out a zone around it. *)
LEMMA ConjunctKeeps ==
    ASSUME NEW x \in Nat, NEW z, z.min \in Nat, z.max \in Nat, z.min <= x, x <= z.max,
           NEW p, IsConjunct(p), Holds(x, p)
    PROVE  MayMatch(z, p)
<1>1. CASE p.op # "IN"
    <2>1. p.value \in Nat /\ p.op \in Orders
        BY <1>1 DEF IsConjunct
    <2>2. CASE p.op = "=" BY <2>1, <2>2, SMT DEF Holds, MayMatch
    <2>3. CASE p.op = "!=" BY <2>1, <2>3, SMT DEF Holds, MayMatch
    <2>4. CASE p.op = "<" BY <2>1, <2>4, SMT DEF Holds, MayMatch
    <2>5. CASE p.op = "<=" BY <2>1, <2>5, SMT DEF Holds, MayMatch
    <2>6. CASE p.op = ">" BY <2>1, <2>6, SMT DEF Holds, MayMatch
    <2>7. CASE p.op = ">=" BY <2>1, <2>7, SMT DEF Holds, MayMatch
    <2> QED BY <2>1, <2>2, <2>3, <2>4, <2>5, <2>6, <2>7 DEF Orders
<1>2. CASE p.op = "IN"
    <2>1. x \in p.value
        BY <1>2 DEF Holds
    <2>2. \E v \in p.value : z.min <= v /\ v <= z.max
        BY <2>1
    <2> QED BY <1>2, <2>2 DEF MayMatch
<1> QED BY <1>1, <1>2

(* Pruning loses no row of the answer when the conjuncts a statement is pruned by
   are about everything it reads: if some row of a partition satisfies every
   conjunct of one of the reads, no conjunct rules the partition out
   (select_partitions; _may_match, "False ONLY when the zone map proves no
   row in the partition can match"). *)
THEOREM PruningIsSound ==
    ASSUME NEW part \in SUBSET Column, NEW t, NEW i, NEW sql, Rows(sql, t, i, part) # {},
           \A p \in sql.prunes : IsConjunct(p),
           \A n \in DOMAIN sql.reads : sql.prunes \subseteq sql.reads[n].where
    PROVE  \A p \in sql.prunes : MayMatch(ZoneMap(part), p)
<1> TAKE p \in sql.prunes
<1>1. PICK x \in part : \A q \in sql.prunes : Holds(x, q)
    <2>1. PICK row \in (DOMAIN sql.reads) \X {i} \X part :
             \A q \in sql.reads[row[1]].where : Holds(row[3], q)
        BY DEF Rows
    <2>2. row[1] \in DOMAIN sql.reads /\ row[3] \in part
        OBVIOUS
    <2> QED BY <2>1, <2>2
<1>2. x # Null /\ IsConjunct(p) /\ Holds(x, p)
    BY <1>1 DEF Holds
<1>3. \A y \in Column : y # Null => y \in Nat
    BY DEF Column
<1>4. /\ x \in Nat /\ ZoneMap(part).min \in Nat /\ ZoneMap(part).max \in Nat
      /\ ZoneMap(part).min <= x /\ x <= ZoneMap(part).max
    BY <1>2, <1>3, ZoneBounds
<1> QED BY <1>2, <1>4, ConjunctKeeps

-----------------------------------------------------------------------------
(* What the store holds *)

(* The meta record of an upload follows from its content. *)
MetaOf(t, v) ==
    LET parts == content[<<t, v>>] IN
    [version |-> v, parts |-> Len(parts),
     zones |-> IF v = 0 THEN <<>> ELSE [i \in 1..Len(parts) |-> ZoneMap(parts[i])]]

(* No upload still writes the partitions of version v of t. *)
Written(t, v) ==
    /\ <<t, v>> \in DOMAIN content
    /\ ~(Working("store", "parts") /\ mutator.table = t /\ ver[t] = v)

(* m is the meta record of an upload that was listed. *)
Listable(t, m) == Written(t, m.version) /\ m = MetaOf(t, m.version)

(* Versions are never used twice, and content never changes. *)
StoreInv ==
    /\ ver \in [Tables -> Nat]
    /\ DOMAIN content \subseteq Tables \X Nat
    /\ \A p \in DOMAIN content : content[p] \in Seq(SUBSET Column) /\ p[2] <= ver[p[1]]
    /\ DOMAIN meta = Tables
    /\ \A t \in Tables : meta[t] # NoMeta => Listable(t, meta[t])
    /\ \A k \in DOMAIN blob :
          \E p \in DOMAIN content : \E i \in DOMAIN content[p] :
             k = <<p[1], p[2], i>> /\ blob[k] = content[p][i]

Listed == UNION {Keys(t, meta[t]) : t \in Tables}
Fresh == {<<mutator.table, ver[mutator.table], i>> : i \in DOMAIN mutator.content}

(* The partitions stored, by the point where an upload or delete stands. *)
Holding ==
    CASE Working("store", "parts") -> Listed \cup (Fresh \ mutator.left)
      [] Working("store", "erase") -> Listed \cup mutator.left
      [] Working("delete", "erase") ->
            (Listed \ Keys(mutator.table, mutator.old)) \cup mutator.left
      [] OTHER -> Listed

MutatorInv ==
    /\ DOMAIN mutator = DOMAIN AtRest
    /\ ~interrupted => DOMAIN blob = Holding
    /\ \/ mutator = AtRest
       \/ /\ mutator.table \in Tables
          /\ <<mutator.op, mutator.at>> \in
                {<<"store", "parts">>, <<"store", "erase">>, <<"delete", "erase">>,
                 <<"delete", "bump">>, <<"delete", "history">>}
    /\ Working("store", "parts") =>
          /\ <<mutator.table, ver[mutator.table]>> \in DOMAIN content
          /\ mutator.content = content[<<mutator.table, ver[mutator.table]>>]
          /\ ver[mutator.table] # 0
          /\ mutator.old = meta[mutator.table]
          /\ mutator.left \subseteq Fresh
    /\ Working("store", "erase") =>
          /\ mutator.old.version < meta[mutator.table].version
          /\ mutator.left \subseteq Keys(mutator.table, mutator.old)
    /\ Working("delete", "erase") =>
          /\ mutator.old = meta[mutator.table] /\ mutator.old # NoMeta
          /\ mutator.left \subseteq Keys(mutator.table, mutator.old)

-----------------------------------------------------------------------------
(* What a query has found *)

(* A partition these meta records name is gone, and stays so. *)
Gone(metas) == \E t \in DOMAIN metas : ~(Keys(t, metas[t]) \subseteq DOMAIN blob)
Right(sql, metas, answer) ==
    /\ answer \subseteq Exact(sql, metas)
    /\ Gone(metas) \/ ~PrunesAll(sql) \/ answer = Exact(sql, metas)
AllListable(metas) ==
    DOMAIN metas \subseteq Tables /\ \A t \in DOMAIN metas : Listable(t, metas[t])

(* Of the tables it is done with, a query has the rows of every partition but
   those that are gone, unless it was pruned by a conjunct that is not about all
   it reads. *)
Gathered(q) ==
    /\ q.got \subseteq Exact(q.sql, q.metas)
    /\ PrunesAll(q.sql) => \A t \in DOMAIN q.metas : t \notin Range(q.left) =>
          \A i \in 1..q.metas[t].parts :
             LET k == <<t, q.metas[t].version, i>> IN
             \/ k \in q.keys \/ k \notin DOMAIN blob
             \/ Rows(q.sql, t, i, content[<<t, q.metas[t].version>>][i]) \subseteq q.got

QueryOk(q) ==
    /\ q.sql.tables \in Seq(Tables) /\ q.sql.tables # <<>> /\ (\A p \in q.sql.prunes : IsConjunct(p))
    /\ q.views \/ q.sql \in Statements
    /\ AllListable(q.metas) /\ q.left \in Seq(Tables)
    /\ q.at = "metas" => /\ Range(q.sql.tables) = DOMAIN q.metas \cup Range(q.left)
                         /\ q.keys = {} /\ q.got = {}
    /\ q.at \in {"check", "load", "execute"} =>
          /\ DOMAIN q.metas = Range(q.sql.tables) /\ Range(q.left) \subseteq DOMAIN q.metas
          /\ q.at # "load" => q.keys = {}
          /\ q.at = "execute" => q.left = <<>>
          /\ q.keys \subseteq UNION {Keys(t, q.metas[t]) : t \in DOMAIN q.metas}
          /\ Gathered(q)
    /\ q.at = "record" => q.left # <<>>
    /\ q.answer = NoAnswer \/ Right(q.sql, q.metas, q.answer)
    /\ q.at \in {"metas", "check", "load", "execute"} => q.answer = NoAnswer

ThreadsInv ==
    /\ DOMAIN thread = Threads
    /\ \A c \in Threads : DOMAIN thread[c] = DOMAIN Idle
    /\ \A c \in Threads : IF thread[c].at = "idle" THEN thread[c].answer = NoAnswer
                                                   ELSE QueryOk(thread[c])

(* The meta records the versions in a cache key stand for. *)
MetasOf(versions) == [t \in DOMAIN versions |-> MetaOf(t, versions[t])]

EntryOk(e) ==
    /\ DOMAIN e.key.versions \subseteq Tables
    /\ \A t \in DOMAIN e.key.versions : Written(t, e.key.versions[t])
    /\ \A sql \in Statements : sql.text = e.key.text =>
          Right(sql, MetasOf(e.key.versions), e.answer)

CacheInv == cache \in Seq(Range(cache)) /\ \A e \in Range(cache) : EntryOk(e)

-----------------------------------------------------------------------------
(* Lemmas about the operators *)

(* What Exact contains. *)
LEMMA InExact ==
    ASSUME NEW sql, NEW metas, NEW r
    PROVE  r \in Exact(sql, metas) <=>
              \E t \in DOMAIN metas : \E i \in 1..metas[t].parts :
                 r \in Rows(sql, t, i, content[<<t, metas[t].version>>][i])
BY DEF Exact

LEMMA PutFacts ==
    ASSUME NEW f, NEW k, NEW x
    PROVE  /\ DOMAIN Put(f, k, x) = DOMAIN f \cup {k} /\ Put(f, k, x)[k] = x
           /\ \A j \in DOMAIN f : j # k => Put(f, k, x)[j] = f[j]
BY DEF Put

LEMMA TailFacts ==
    ASSUME NEW S, NEW s \in Seq(S), s # <<>>
    PROVE  /\ Head(s) \in S /\ Tail(s) \in Seq(S) /\ Head(s) \in Range(s)
           /\ Range(Tail(s)) \subseteq Range(s)
           /\ \A x \in Range(s) : x = Head(s) \/ x \in Range(Tail(s))
<1>1. Len(s) \in Nat /\ Len(s) # 0 /\ DOMAIN s = 1..Len(s) /\ Head(s) = s[1]
    OBVIOUS
<1>2. /\ Tail(s) \in Seq(S) /\ Len(Tail(s)) = Len(s) - 1
      /\ DOMAIN Tail(s) = 1..(Len(s) - 1) /\ \A i \in 1..(Len(s) - 1) : Tail(s)[i] = s[i + 1]
    BY <1>1
<1>3. Head(s) \in S /\ Head(s) \in Range(s)
    BY <1>1 DEF Range
<1>4. ASSUME NEW x \in Range(Tail(s)) PROVE x \in Range(s)
    <2>1. PICK i \in 1..(Len(s) - 1) : x = s[i + 1]
        BY <1>2 DEF Range
    <2>2. i + 1 \in 1..Len(s)
        BY <1>1, <2>1
    <2> QED BY <1>1, <2>1, <2>2 DEF Range
<1>5. ASSUME NEW x \in Range(s), x # Head(s) PROVE x \in Range(Tail(s))
    <2>1. PICK i \in 1..Len(s) : x = s[i]
        BY <1>1 DEF Range
    <2>2. i - 1 \in 1..(Len(s) - 1) /\ (i - 1) + 1 = i
        BY <1>1, <1>5, <2>1
    <2> QED BY <1>2, <2>1, <2>2 DEF Range
<1> QED BY <1>2, <1>3, <1>4, <1>5

(* The partitions of a table have its name and its version. *)
LEMMA InKeys ==
    ASSUME NEW t, NEW m, NEW k
    PROVE  k \in Keys(t, m) <=> \E i \in 1..m.parts : k = <<t, m.version, i>>
BY DEF Keys

LEMMA MetaFields ==
    ASSUME NEW t, NEW v
    PROVE  /\ MetaOf(t, v).version = v
           /\ MetaOf(t, v).parts = Len(content[<<t, v>>])
           /\ MetaOf(t, v).zones = IF v = 0 THEN <<>> ELSE
                 [i \in 1..Len(content[<<t, v>>]) |-> ZoneMap(content[<<t, v>>][i])]
BY DEF MetaOf

(* A step of a thread leaves the others alone. *)
LEMMA StepFacts ==
    ASSUME DOMAIN thread = Threads, NEW c \in Threads, NEW f, thread' = [thread EXCEPT ![c] = f]
    PROVE  /\ DOMAIN thread' = Threads /\ thread'[c] = f
           /\ \A d \in Threads : d # c => thread'[d] = thread[d]
OBVIOUS
LEMMA GoesFacts ==
    ASSUME DOMAIN thread = Threads, NEW c \in Threads, NEW a, Goes(c, a),
           DOMAIN thread[c] = DOMAIN Idle
    PROVE  /\ DOMAIN thread' = Threads /\ DOMAIN thread'[c] = DOMAIN Idle
           /\ \A d \in Threads : d # c => thread'[d] = thread[d]
           /\ thread'[c].at = a /\ thread'[c].sql = thread[c].sql
           /\ thread'[c].views = thread[c].views /\ thread'[c].metas = thread[c].metas
           /\ thread'[c].left = thread[c].left /\ thread'[c].keys = thread[c].keys
           /\ thread'[c].got = thread[c].got /\ thread'[c].answer = thread[c].answer
BY DEF Goes, Step, Idle

-----------------------------------------------------------------------------
(* What no step takes back *)

(* Content is only added, a version once written is never written again, and its
   partitions only go. *)
Onward ==
    /\ DOMAIN content \subseteq DOMAIN content'
    /\ \A p \in DOMAIN content : content'[p] = content[p]
    /\ \A t, v : Written(t, v) => Written(t, v)'
    /\ \A t, v, i : Written(t, v) /\ <<t, v, i>> \notin DOMAIN blob
                       => <<t, v, i>> \notin DOMAIN blob'

LEMMA MetaStays ==
    ASSUME Onward, NEW t, NEW v, Written(t, v)
    PROVE  MetaOf(t, v)' = MetaOf(t, v) /\ content'[<<t, v>>] = content[<<t, v>>]
BY DEF Onward, Written, MetaOf

LEMMA ListableStays ==
    ASSUME Onward, NEW t, NEW m, Listable(t, m)
    PROVE  /\ Listable(t, m)'
           /\ content'[<<t, m.version>>] = content[<<t, m.version>>]
<1>1. Written(t, m.version) /\ m = MetaOf(t, m.version)
    BY DEF Listable
<1>2. Written(t, m.version)'
    BY <1>1 DEF Onward
<1>3. MetaOf(t, m.version)' = MetaOf(t, m.version)
      /\ content'[<<t, m.version>>] = content[<<t, m.version>>]
    BY <1>1, MetaStays
<1> QED BY <1>1, <1>2, <1>3 DEF Listable

LEMMA AllListableStays ==
    ASSUME Onward, NEW metas, AllListable(metas)
    PROVE  AllListable(metas)'
BY ListableStays DEF AllListable

LEMMA ExactStays ==
    ASSUME Onward, NEW sql, NEW metas, AllListable(metas)
    PROVE  Exact(sql, metas)' = Exact(sql, metas)
<1>1. \A t \in DOMAIN metas :
         content'[<<t, metas[t].version>>] = content[<<t, metas[t].version>>]
    BY ListableStays DEF AllListable
<1>2. \A r : r \in Exact(sql, metas) <=>
              \E t \in DOMAIN metas : \E i \in 1..metas[t].parts :
                 r \in Rows(sql, t, i, content[<<t, metas[t].version>>][i])
    BY InExact
<1>3. \A r : r \in Exact(sql, metas)' <=>
              \E t \in DOMAIN metas : \E i \in 1..metas[t].parts :
                 r \in Rows(sql, t, i, content'[<<t, metas[t].version>>][i])
    BY DEF Exact
<1>4. \A r : r \in Exact(sql, metas)' <=> r \in Exact(sql, metas)
    <2> TAKE r
    <2> QED BY <1>1, <1>2, <1>3
<1> QED BY <1>4

LEMMA GoneStays ==
    ASSUME Onward, NEW metas, AllListable(metas), Gone(metas)
    PROVE  Gone(metas)'
<1>1. PICK t \in DOMAIN metas : ~(Keys(t, metas[t]) \subseteq DOMAIN blob)
    BY DEF Gone
<1>2. PICK k \in Keys(t, metas[t]) : k \notin DOMAIN blob
    BY <1>1
<1>3. PICK i \in 1..metas[t].parts : k = <<t, metas[t].version, i>>
    BY <1>2, InKeys
<1>4. Written(t, metas[t].version)
    BY <1>1 DEF AllListable, Listable
<1>5. k \notin DOMAIN blob'
    BY <1>2, <1>3, <1>4 DEF Onward
<1> QED BY <1>1, <1>2, <1>5 DEF Gone

LEMMA RightStays ==
    ASSUME Onward, NEW sql, NEW metas, NEW answer, AllListable(metas), Right(sql, metas, answer)
    PROVE  Right(sql, metas, answer)'
BY ExactStays, GoneStays DEF Right

LEMMA GatheredStays ==
    ASSUME Onward, NEW q, AllListable(q.metas), Gathered(q)
    PROVE  Gathered(q)'
<1>1. Exact(q.sql, q.metas)' = Exact(q.sql, q.metas)
    BY ExactStays
<1>2. ASSUME PrunesAll(q.sql), NEW t \in DOMAIN q.metas, t \notin Range(q.left),
             NEW i \in 1..q.metas[t].parts
      PROVE  LET k == <<t, q.metas[t].version, i>> IN
             \/ k \in q.keys \/ k \notin DOMAIN blob'
             \/ Rows(q.sql, t, i, content'[<<t, q.metas[t].version>>][i]) \subseteq q.got
    <2> DEFINE k == <<t, q.metas[t].version, i>>
    <2>1. \/ k \in q.keys \/ k \notin DOMAIN blob
          \/ Rows(q.sql, t, i, content[<<t, q.metas[t].version>>][i]) \subseteq q.got
        BY <1>2 DEF Gathered
    <2>2. Listable(t, q.metas[t])
        BY DEF AllListable
    <2>3. Written(t, q.metas[t].version)
          /\ content'[<<t, q.metas[t].version>>] = content[<<t, q.metas[t].version>>]
        BY <2>2, ListableStays DEF Listable
    <2>4. k \notin DOMAIN blob => k \notin DOMAIN blob'
        BY <2>3 DEF Onward
    <2> QED BY <2>1, <2>3, <2>4
<1> QED BY <1>1, <1>2 DEF Gathered

LEMMA QueryStays ==
    ASSUME Onward, NEW q, QueryOk(q)
    PROVE  QueryOk(q)'
<1>1. AllListable(q.metas) /\ AllListable(q.metas)'
    BY AllListableStays DEF QueryOk
<1>2. Gathered(q) => Gathered(q)'
    BY <1>1, GatheredStays
<1>3. Right(q.sql, q.metas, q.answer) => Right(q.sql, q.metas, q.answer)'
    BY <1>1, RightStays
<1> QED BY <1>1, <1>2, <1>3 DEF QueryOk

LEMMA OtherQueries ==
    ASSUME Onward, NEW c, thread'[c] = thread[c], QueryOk(thread[c])
    PROVE  QueryOk(thread[c])'
<1>1. PICK q : q = thread[c]
    OBVIOUS
<1>2. QueryOk(q) /\ q = thread'[c]
    BY <1>1
<1>3. QueryOk(q)'
    BY <1>2, QueryStays
<1> QED BY <1>2, <1>3

LEMMA EntryStays ==
    ASSUME Onward, NEW e, EntryOk(e)
    PROVE  EntryOk(e)'
<1> DEFINE versions == e.key.versions
<1>1. /\ DOMAIN versions \subseteq Tables
      /\ \A t \in DOMAIN versions : Written(t, versions[t])
      /\ \A sql \in Statements : sql.text = e.key.text => Right(sql, MetasOf(versions), e.answer)
    BY DEF EntryOk
<1>2. \A t \in DOMAIN versions : Written(t, versions[t])'
                                 /\ MetaOf(t, versions[t])' = MetaOf(t, versions[t])
    BY <1>1, MetaStays DEF Onward
<1>3. PICK metas : metas = MetasOf(versions)
    OBVIOUS
<1>4. metas = MetasOf(versions)'
    BY <1>2, <1>3 DEF MetasOf
<1>5. DOMAIN metas = DOMAIN versions /\ \A t \in DOMAIN metas : metas[t] = MetaOf(t, versions[t])
    BY <1>3 DEF MetasOf
<1>6. AllListable(metas)
    <2>1. ASSUME NEW t \in DOMAIN metas PROVE metas[t].version = versions[t]
        <3>1. MetaOf(t, versions[t]).version = versions[t]
            BY MetaFields
        <3> QED BY <1>5, <3>1
    <2> QED BY <1>1, <1>5, <2>1 DEF AllListable, Listable
<1>7. \A sql \in Statements : sql.text = e.key.text => Right(sql, metas, e.answer)'
    BY <1>1, <1>3, <1>6, RightStays
<1> QED BY <1>1, <1>2, <1>4, <1>7 DEF EntryOk

-----------------------------------------------------------------------------
(* Uploads and deletes *)

LEMMA ContentFacts ==
    ASSUME StoreInv, NEW t, NEW v, <<t, v>> \in DOMAIN content
    PROVE  /\ t \in Tables /\ v \in Nat /\ ver[t] \in Nat /\ v <= ver[t]
           /\ content[<<t, v>>] \in Seq(SUBSET Column)
BY DEF StoreInv

(* A listed meta record has a version that its table has had. *)
LEMMA ListedFacts ==
    ASSUME StoreInv, NEW t \in Tables
    PROVE  /\ ver[t] \in Nat
           /\ meta[t] # NoMeta => /\ Written(t, meta[t].version) /\ meta[t].version \in Nat
                                  /\ meta[t].version <= ver[t]
                                  /\ meta[t] = MetaOf(t, meta[t].version)
           /\ meta[t] = NoMeta => Keys(t, meta[t]) = {} /\ meta[t].version = -1
<1>1. ver[t] \in Nat
    BY DEF StoreInv
<1>2. ASSUME meta[t] # NoMeta
      PROVE  /\ Written(t, meta[t].version) /\ meta[t].version \in Nat
             /\ meta[t].version <= ver[t] /\ meta[t] = MetaOf(t, meta[t].version)
    <2>1. Written(t, meta[t].version) /\ meta[t] = MetaOf(t, meta[t].version)
        BY <1>2 DEF StoreInv, Listable
    <2>2. <<t, meta[t].version>> \in DOMAIN content
        BY <2>1 DEF Written
    <2> QED BY <2>1, <2>2, ContentFacts
<1>3. ASSUME meta[t] = NoMeta PROVE Keys(t, meta[t]) = {} /\ meta[t].version = -1
    BY <1>3 DEF NoMeta, Keys
<1> QED BY <1>1, <1>2, <1>3

(* The meta records not touched stay listable. *)
LEMMA MetasStay ==
    ASSUME StoreInv, Onward, NEW t \in Tables, meta'[t] = meta[t], meta'[t] # NoMeta
    PROVE  Listable(t, meta[t])'
<1>1. PICK m : m = meta[t]
    OBVIOUS
<1>2. Listable(t, m) /\ m = meta'[t]
    BY <1>1 DEF StoreInv
<1>3. Listable(t, m)'
    BY <1>2, ListableStays
<1> QED BY <1>2, <1>3

LEMMA ListedStays == ASSUME UNCHANGED meta PROVE Listed' = Listed
BY DEF Listed

LEMMA UploadStore ==
    ASSUME StoreInv, MutatorInv, NEW t \in Mutable, NEW parts \in Contents, Upload(t, parts)
    PROVE  Onward /\ StoreInv' /\ MutatorInv'
<1> DEFINE n == ver[t] + 1
<1>1. /\ mutator = AtRest /\ ver' = [ver EXCEPT ![t] = @ + 1]
      /\ content' = Put(content, <<t, ver'[t]>>, parts)
      /\ mutator' = Storing(t, ver'[t], parts)
      /\ UNCHANGED <<meta, blob, interrupted>>
    BY DEF Upload, MayMutate, Bumped, Begins
<1>2. t \in Tables /\ ver \in [Tables -> Nat] /\ parts \in Seq(SUBSET Column)
    BY OldTablesAssumption, RowsAssumption DEF StoreInv
<1>3. /\ n \in Nat /\ n # 0 /\ n > ver[t] /\ ver'[t] = n /\ ver' \in [Tables -> Nat]
      /\ \A u \in Tables : u # t => ver'[u] = ver[u]
    BY <1>1, <1>2
<1>4. <<t, n>> \notin DOMAIN content
    BY <1>2, <1>3, ContentFacts
<1>5. /\ DOMAIN content' = DOMAIN content \cup {<<t, n>>} /\ content'[<<t, n>>] = parts
      /\ \A p \in DOMAIN content : content'[p] = content[p]
    <2>1. content' = Put(content, <<t, n>>, parts)
        BY <1>1, <1>3
    <2> QED BY <1>4, <2>1 DEF Put
<1>6. /\ mutator'.op = "store" /\ mutator'.at = "parts" /\ mutator'.table = t
      /\ mutator'.old = meta[t] /\ mutator'.content = parts
      /\ mutator'.left = {<<t, n, i>> : i \in DOMAIN parts}
      /\ DOMAIN mutator' = DOMAIN AtRest
    BY <1>1, <1>3 DEF Storing, AtRest
<1> HIDE DEF n
<1>7. Onward
    <2>1. ASSUME NEW u, NEW v, Written(u, v) PROVE Written(u, v)'
        <3>1. <<u, v>> \in DOMAIN content /\ <<u, v>> \in DOMAIN content'
            BY <1>5, <2>1 DEF Written
        <3>2. v <= ver[u] /\ v \in Nat /\ ver[u] \in Nat
            BY <3>1, ContentFacts
        <3>3. ~(u = t /\ ver'[t] = v)
            BY <1>3, <3>2
        <3> QED BY <1>6, <3>1, <3>3 DEF Written, Working
    <2> QED BY <1>1, <1>5, <2>1 DEF Onward
<1>8. StoreInv'
    <2>1. DOMAIN content' \subseteq Tables \X Nat
        BY <1>2, <1>3, <1>5 DEF StoreInv
    <2>2. ASSUME NEW p \in DOMAIN content'
          PROVE  content'[p] \in Seq(SUBSET Column) /\ p[2] <= ver'[p[1]]
        <3>1. CASE p = <<t, n>>
            BY <1>2, <1>3, <1>5, <3>1
        <3>2. CASE p \in DOMAIN content
            <4>1. /\ content'[p] \in Seq(SUBSET Column) /\ p[2] <= ver[p[1]]
                  /\ p[1] \in Tables /\ p[2] \in Nat
                BY <1>5, <3>2 DEF StoreInv
            <4>2. ver[p[1]] <= ver'[p[1]] /\ ver[p[1]] \in Nat /\ ver'[p[1]] \in Nat
                <5>1. CASE p[1] = t
                    BY <1>2, <1>3, <4>1, <5>1
                <5>2. CASE p[1] # t
                    BY <1>2, <1>3, <4>1, <5>2
                <5> QED BY <5>1, <5>2
            <4> QED BY <4>1, <4>2
        <3> QED BY <1>5, <2>2, <3>1, <3>2
    <2>3. \A u \in Tables : meta'[u] # NoMeta => Listable(u, meta[u])'
        BY <1>1, <1>7, MetasStay
    <2>4. ASSUME NEW k \in DOMAIN blob'
          PROVE  \E p \in DOMAIN content' : \E i \in DOMAIN content'[p] :
                    k = <<p[1], p[2], i>> /\ blob'[k] = content'[p][i]
        <3>1. PICK p \in DOMAIN content : \E i \in DOMAIN content[p] :
                    k = <<p[1], p[2], i>> /\ blob[k] = content[p][i]
            BY <1>1 DEF StoreInv
        <3>2. p \in DOMAIN content' /\ content'[p] = content[p]
            BY <1>5
        <3> QED BY <1>1, <3>1, <3>2
    <2> QED BY <1>1, <1>3, <2>1, <2>2, <2>3, <2>4 DEF StoreInv
<1>9. MutatorInv'
    <2>1. Working("store", "parts")' /\ ~Working("store", "erase")' /\ ~Working("delete", "erase")'
        BY <1>6 DEF Working
    <2>2. Fresh' = mutator'.left
        BY <1>3, <1>6 DEF Fresh
    <2>3. Holding' = Listed'
        BY <2>1, <2>2 DEF Holding
    <2>4. ~interrupted => DOMAIN blob = Listed
        BY <1>1 DEF MutatorInv, Holding, Working, AtRest
    <2> QED BY <1>1, <1>2, <1>3, <1>5, <1>6, <2>1, <2>2, <2>3, <2>4, ListedStays DEF MutatorInv
<1> QED BY <1>7, <1>8, <1>9

(* A step that writes nothing but versions *)
LEMMA WritesNothing ==
    ASSUME StoreInv, ver' \in [Tables -> Nat], \A u \in Tables : ver[u] <= ver'[u],
           UNCHANGED content, DOMAIN meta' = Tables,
           \A u \in Tables : meta'[u] = meta[u] \/ meta'[u] = NoMeta,
           \A k \in DOMAIN blob' : k \in DOMAIN blob /\ blob'[k] = blob[k],
           UNCHANGED <<mutator, ver>> \/ ~Working("store", "parts")'
    PROVE  Onward /\ StoreInv'
<1>1. Onward
    <2>1. ASSUME NEW u, NEW v, Written(u, v) PROVE Written(u, v)'
        BY <2>1 DEF Written, Working
    <2> QED BY <2>1 DEF Onward
<1>2. \A p \in DOMAIN content' : content'[p] \in Seq(SUBSET Column) /\ p[2] <= ver'[p[1]]
    <2> SUFFICES ASSUME NEW p \in DOMAIN content
                 PROVE  content[p] \in Seq(SUBSET Column) /\ p[2] <= ver'[p[1]]
        OBVIOUS
    <2>1. /\ content[p] \in Seq(SUBSET Column) /\ p[2] <= ver[p[1]]
          /\ p[1] \in Tables /\ p[2] \in Nat /\ ver \in [Tables -> Nat]
        BY DEF StoreInv
    <2>2. ver[p[1]] <= ver'[p[1]] /\ ver[p[1]] \in Nat /\ ver'[p[1]] \in Nat
        BY <2>1
    <2> QED BY <2>1, <2>2
<1>3. \A u \in Tables : meta'[u] # NoMeta => Listable(u, meta[u])'
    BY <1>1, MetasStay
<1>4. \A k \in DOMAIN blob' : \E p \in DOMAIN content' : \E i \in DOMAIN content'[p] :
         k = <<p[1], p[2], i>> /\ blob'[k] = content'[p][i]
    BY DEF StoreInv
<1>5. DOMAIN content' \subseteq Tables \X Nat
    BY DEF StoreInv
<1> QED BY <1>1, <1>2, <1>3, <1>4, <1>5 DEF StoreInv

LEMMA VersionsAreNaturals == ASSUME StoreInv PROVE \A u \in Tables : ver[u] \in Nat /\ ver[u] <= ver[u]
BY DEF StoreInv

LEMMA ListedWithout ==
    ASSUME StoreInv, NEW t \in Tables, DOMAIN meta' = Tables,
           \A u \in Tables : u # t => meta'[u] = meta[u]
    PROVE  Listed' = (Listed \ Keys(t, meta[t])) \cup Keys(t, meta[t])'
<1>1. \A u \in Tables : u # t => Keys(u, meta[u])' = Keys(u, meta[u])
                                 /\ Keys(u, meta[u]) \cap Keys(t, meta[t]) = {}
    BY InKeys
<1>2. \A k : k \in Listed <=> \E u \in Tables : k \in Keys(u, meta[u])
    BY DEF Listed
<1>3. \A k : k \in Listed' <=> \E u \in Tables : k \in Keys(u, meta[u])'
    BY DEF Listed
<1>4. \A k : k \in Listed' <=> k \in (Listed \ Keys(t, meta[t])) \cup Keys(t, meta[t])'
    BY <1>1, <1>2, <1>3
<1> QED BY <1>4

LEMMA DeleteStore ==
    ASSUME StoreInv, MutatorInv, NEW t \in Mutable, Delete(t)
    PROVE  Onward /\ StoreInv' /\ MutatorInv'
<1>1. /\ mutator = AtRest /\ meta[t] # NoMeta /\ t \in Tables
      /\ mutator' = [AtRest EXCEPT !.op = "delete", !.at = "erase", !.table = t,
                                 !.old = meta[t], !.left = Keys(t, meta[t])]
      /\ UNCHANGED <<ver, meta, blob, content, interrupted>>
    BY OldTablesAssumption DEF Delete, MayMutate, Begins, stored
<1>2. /\ mutator'.op = "delete" /\ mutator'.at = "erase" /\ mutator'.table = t
      /\ mutator'.old = meta[t] /\ mutator'.left = Keys(t, meta[t])
      /\ DOMAIN mutator' = DOMAIN AtRest
    BY <1>1 DEF AtRest
<1>3. /\ ~Working("store", "parts")' /\ ~Working("store", "erase")'
      /\ Working("delete", "erase")'
    BY <1>2 DEF Working
<1>4. Onward /\ StoreInv'
    <2>1. ver' \in [Tables -> Nat] /\ DOMAIN meta' = Tables
        BY <1>1 DEF StoreInv
    <2> QED BY <1>1, <1>3, <2>1, VersionsAreNaturals, WritesNothing
<1>5. MutatorInv'
    <2>1. Keys(t, meta[t]) \subseteq Listed
        BY <1>1 DEF Listed
    <2>2. Holding' = (Listed' \ Keys(t, meta[t])) \cup Keys(t, meta[t])
        BY <1>2, <1>3 DEF Holding
    <2>3. Holding' = Listed
        BY <1>1, <2>1, <2>2, ListedStays
    <2>4. ~interrupted => DOMAIN blob = Listed
        BY <1>1 DEF MutatorInv, Holding, Working, AtRest
    <2> QED BY <1>1, <1>2, <1>3, <2>3, <2>4 DEF MutatorInv
<1> QED BY <1>4, <1>5

LEMMA PutPartStore ==
    ASSUME StoreInv, MutatorInv, PutPart
    PROVE  Onward /\ StoreInv' /\ MutatorInv'
<1> DEFINE t == mutator.table
           n == ver[t]
<1>1. PICK k \in mutator.left :
        /\ blob' = Put(blob, k, mutator.content[k[3]])
        /\ mutator' = [mutator EXCEPT !.left = @ \ {k}]
    BY DEF PutPart, InTurn
<1>2. /\ Working("store", "parts") /\ UNCHANGED <<ver, meta, content, interrupted>>
    BY DEF PutPart, Others, counts
<1>3. /\ t \in Tables /\ <<t, n>> \in DOMAIN content /\ mutator.content = content[<<t, n>>]
      /\ n # 0 /\ mutator.old = meta[t] /\ mutator.left \subseteq Fresh
      /\ DOMAIN mutator = DOMAIN AtRest
    BY <1>2 DEF MutatorInv, Working, AtRest
<1>4. PICK i \in DOMAIN mutator.content : k = <<t, n, i>>
    BY <1>3 DEF Fresh
<1>5. /\ mutator'.op = mutator.op /\ mutator'.at = mutator.at /\ mutator'.table = t
      /\ mutator'.old = mutator.old /\ mutator'.content = mutator.content
      /\ mutator'.left = mutator.left \ {k} /\ DOMAIN mutator' = DOMAIN AtRest
    BY <1>1, <1>3 DEF AtRest
<1>6. /\ DOMAIN blob' = DOMAIN blob \cup {k} /\ blob'[k] = content[<<t, n>>][i]
      /\ \A j \in DOMAIN blob : j # k => blob'[j] = blob[j]
    BY <1>1, <1>3, <1>4 DEF Put
<1>7. Working("store", "parts")' /\ ~Working("store", "erase")' /\ ~Working("delete", "erase")'
    BY <1>2, <1>5 DEF Working
<1>8. \A u, v : Written(u, v)' = Written(u, v)
    BY <1>2, <1>5, <1>7 DEF Written
<1>9. Onward
    <2>1. ASSUME NEW u, NEW v, NEW j, Written(u, v), <<u, v, j>> \notin DOMAIN blob
          PROVE  <<u, v, j>> \notin DOMAIN blob'
        <3>1. ~(u = t /\ v = n)
            BY <1>2, <2>1 DEF Written
        <3> QED BY <1>4, <1>6, <2>1, <3>1
    <2> QED BY <1>2, <1>8, <2>1 DEF Onward
<1>10. StoreInv'
    <2>1. \A u \in Tables : meta'[u] # NoMeta => Listable(u, meta[u])'
        BY <1>2, <1>9, MetasStay
    <2>2. ASSUME NEW j \in DOMAIN blob'
          PROVE  \E p \in DOMAIN content : \E x \in DOMAIN content[p] :
                    j = <<p[1], p[2], x>> /\ blob'[j] = content[p][x]
        <3>1. CASE j = k
            <4>1. i \in DOMAIN content[<<t, n>>] /\ <<t, n>> \in DOMAIN content
                BY <1>3, <1>4
            <4> QED BY <1>4, <1>6, <3>1, <4>1
        <3>2. CASE j # k
            BY <1>6, <2>2, <3>2 DEF StoreInv
        <3> QED BY <3>1, <3>2
    <2> QED BY <1>2, <2>1, <2>2 DEF StoreInv
<1>11. MutatorInv'
    <2>1. Fresh' = Fresh
        BY <1>2, <1>5 DEF Fresh
    <2>2. Holding = Listed \cup (Fresh \ mutator.left)
        BY <1>2 DEF Holding, Working
    <2>3. Holding' = Listed \cup (Fresh \ mutator'.left)
        BY <1>2, <1>7, <2>1, ListedStays DEF Holding
    <2>4. Holding' = Holding \cup {k}
        BY <1>1, <1>3, <1>5, <2>2, <2>3
    <2>5. ~interrupted => DOMAIN blob = Holding
        BY DEF MutatorInv
    <2> QED BY <1>2, <1>3, <1>5, <1>6, <1>7, <2>1, <2>4, <2>5 DEF MutatorInv, Working
<1> QED BY <1>9, <1>10, <1>11

LEMMA PutMetaStore ==
    ASSUME StoreInv, MutatorInv, PutMeta
    PROVE  Onward /\ StoreInv' /\ MutatorInv'
<1>0. PICK t, n : t = mutator.table /\ n = ver[t]
    OBVIOUS
<1>1. /\ Working("store", "parts") /\ mutator.left = {}
      /\ meta' = [meta EXCEPT ![t] = [version |-> n, parts |-> Len(mutator.content),
                    zones |-> [i \in 1..Len(mutator.content) |-> ZoneMap(mutator.content[i])]]]
      /\ mutator' = Erasing(Keys(t, mutator.old))
      /\ UNCHANGED <<ver, blob, content, interrupted>>
    BY <1>0 DEF PutMeta, Others, counts
<1>2. /\ t \in Tables /\ <<t, n>> \in DOMAIN content /\ mutator.content = content[<<t, n>>]
      /\ n # 0 /\ mutator.old = meta[t] /\ DOMAIN mutator = DOMAIN AtRest
      /\ DOMAIN meta = Tables
    BY <1>0, <1>1 DEF MutatorInv, Working, AtRest, StoreInv
<1>3. /\ DOMAIN meta' = Tables /\ meta'[t] = MetaOf(t, n)
      /\ \A u \in Tables : u # t => meta'[u] = meta[u]
    BY <1>1, <1>2 DEF MetaOf
<1>4. n \in Nat /\ content[<<t, n>>] \in Seq(SUBSET Column)
    BY <1>2, ContentFacts
<1>5. meta'[t].version = n /\ meta'[t].parts = Len(content[<<t, n>>])
    <2>1. MetaOf(t, n).version = n /\ MetaOf(t, n).parts = Len(content[<<t, n>>])
        BY MetaFields
    <2> QED BY <1>3, <2>1
<1>6. Keys(t, meta[t])' = Fresh
    <2>1. DOMAIN mutator.content = 1..Len(content[<<t, n>>])
        BY <1>2, <1>4
    <2> QED BY <1>0, <1>2, <1>5, <2>1 DEF Keys, Fresh
<1>7. mutator.op = "store"
    BY <1>1 DEF Working
<1>8. \/ mutator' = AtRest /\ Keys(t, meta[t]) = {}
      \/ /\ mutator'.op = "store" /\ mutator'.at = "erase" /\ mutator'.table = t
         /\ mutator'.left = Keys(t, meta[t]) /\ mutator'.old = meta[t]
         /\ DOMAIN mutator' = DOMAIN AtRest
    BY <1>0, <1>1, <1>2, <1>7 DEF Erasing, AtRest
<1>9. ~Working("store", "parts")' /\ ~Working("delete", "erase")'
    BY <1>8 DEF Working, AtRest
<1>10. Onward
    <2>1. \A u, v : Written(u, v) => Written(u, v)'
        BY <1>1, <1>9 DEF Written
    <2> QED BY <1>1, <2>1 DEF Onward
<1>11. StoreInv'
    <2>1. ASSUME NEW u \in Tables, meta'[u] # NoMeta PROVE Listable(u, meta[u])'
        <3>1. CASE u # t
            BY <1>3, <1>10, <2>1, <3>1, MetasStay
        <3>2. CASE u = t
            <4>1. Written(t, n)'
                BY <1>1, <1>2, <1>9 DEF Written
            <4>2. MetaOf(t, n)' = MetaOf(t, n)
                BY <1>1, <1>2 DEF MetaOf
            <4> QED BY <1>1, <1>3, <1>5, <3>2, <4>1, <4>2 DEF Listable
        <3> QED BY <3>1, <3>2
    <2> QED BY <1>1, <1>3, <2>1 DEF StoreInv
<1>12. meta[t].version < n
    <2>1. meta[t] # NoMeta => Written(t, meta[t].version)
        BY <1>2, ListedFacts
    <2>2. meta[t] # NoMeta => meta[t].version # n
        BY <1>0, <1>1, <2>1 DEF Written
    <2> QED BY <1>0, <1>2, <1>4, <2>2, ListedFacts
<1>13. MutatorInv'
    <2>1. Listed' = (Listed \ Keys(t, meta[t])) \cup Fresh
        BY <1>2, <1>3, <1>6, ListedWithout
    <2>2. Holding = Listed \cup Fresh
        BY <1>1 DEF Holding, Working
    <2>3. Keys(t, meta[t]) \subseteq Listed
        BY <1>2 DEF Listed
    <2>4. Holding' = Listed' \cup Keys(t, meta[t])
        BY <1>8 DEF Holding, Working, AtRest
    <2>5. Holding' = Holding
        BY <2>1, <2>2, <2>3, <2>4
    <2>6. ~interrupted => DOMAIN blob = Holding
        BY DEF MutatorInv
    <2>7. Working("store", "erase")' =>
              /\ mutator'.old.version < meta'[mutator'.table].version
              /\ mutator'.left \subseteq Keys(mutator'.table, mutator'.old)
        BY <1>0, <1>5, <1>8, <1>12 DEF Working, AtRest
    <2> QED BY <1>1, <1>2, <1>8, <1>9, <2>5, <2>6, <2>7 DEF MutatorInv
<1> QED BY <1>10, <1>11, <1>13

LEMMA EraseStore ==
    ASSUME StoreInv, MutatorInv, Erase
    PROVE  Onward /\ StoreInv' /\ MutatorInv'
<1> DEFINE t == mutator.table
<1>1. PICK k \in mutator.left :
        /\ blob' = Restrict(blob, DOMAIN blob \ {k})
        /\ mutator' = Erasing(mutator.left \ {k})
    BY DEF Erase, InTurn
<1>2. mutator.at = "erase" /\ UNCHANGED <<ver, meta, content, interrupted>>
    BY DEF Erase, Others, counts
<1>3. DOMAIN blob' = DOMAIN blob \ {k} /\ \A j \in DOMAIN blob' : blob'[j] = blob[j]
    BY <1>1 DEF Restrict
<1>4. /\ t \in Tables /\ DOMAIN mutator = DOMAIN AtRest
      /\ Working("store", "erase") \/ Working("delete", "erase")
    BY <1>2 DEF MutatorInv, AtRest, Working
<1>5. \/ mutator' = AtRest /\ mutator.left \ {k} = {} /\ mutator.op = "store"
      \/ /\ mutator'.op = mutator.op /\ mutator'.at = "erase" /\ mutator'.table = t
         /\ mutator'.old = mutator.old /\ mutator'.left = mutator.left \ {k}
         /\ DOMAIN mutator' = DOMAIN AtRest
    BY <1>1, <1>4 DEF Erasing, AtRest
<1>6. ~Working("store", "parts")' /\ ~Working("store", "parts")
    BY <1>2, <1>5 DEF Working, AtRest
<1>7. Onward /\ StoreInv'
    <2>1. ver' \in [Tables -> Nat] /\ DOMAIN meta' = Tables
        BY <1>2 DEF StoreInv
    <2> QED BY <1>2, <1>3, <1>6, <2>1, VersionsAreNaturals, WritesNothing
<1>8. CASE Working("store", "erase")
    <2>1. /\ mutator.old.version < meta[t].version
          /\ mutator.left \subseteq Keys(t, mutator.old)
        BY <1>8 DEF MutatorInv
    <2>2. k \notin Listed
        <3> SUFFICES ASSUME NEW u \in Tables, k \in Keys(u, meta[u]) PROVE FALSE
            BY DEF Listed
        <3>1. k \in Keys(t, mutator.old)
            BY <2>1
        <3>2. u = t /\ meta[u].version = mutator.old.version
            BY <3>1, InKeys
        <3>3. meta[t].version \in Int
            BY <1>4, ListedFacts
        <3> QED BY <2>1, <3>2, <3>3
    <2>3. Holding = Listed \cup mutator.left
        BY <1>8 DEF Holding, Working
    <2>4. Holding' = Listed' \cup (mutator.left \ {k})
        BY <1>5, <1>8 DEF Holding, Working, AtRest
    <2>5. Holding' = Holding \ {k}
        BY <1>2, <2>2, <2>3, <2>4, ListedStays
    <2>6. ~interrupted => DOMAIN blob = Holding
        BY DEF MutatorInv
    <2>7. Working("store", "erase")' =>
              /\ mutator'.old.version < meta'[mutator'.table].version
              /\ mutator'.left \subseteq Keys(mutator'.table, mutator'.old)
        BY <1>2, <1>5, <2>1 DEF Working, AtRest
    <2>8. ~Working("delete", "erase")'
        BY <1>5, <1>8 DEF Working, AtRest
    <2>9. mutator' = AtRest \/ <<mutator'.op, mutator'.at>> = <<"store", "erase">>
        BY <1>5, <1>8 DEF Working
    <2>10. MutatorInv'
        BY <1>2, <1>3, <1>4, <1>5, <1>6, <2>5, <2>6, <2>7, <2>8, <2>9 DEF MutatorInv
    <2> QED BY <1>7, <2>10
<1>9. CASE Working("delete", "erase")
    <2>1. /\ mutator.old = meta[t] /\ mutator.old # NoMeta
          /\ mutator.left \subseteq Keys(t, mutator.old)
        BY <1>9 DEF MutatorInv
    <2>2. Working("delete", "erase")' /\ ~Working("store", "erase")'
        BY <1>5, <1>9 DEF Working
    <2>3. Holding = (Listed \ Keys(t, mutator.old)) \cup mutator.left
        BY <1>9 DEF Holding, Working
    <2>4. Holding' = (Listed' \ Keys(t, mutator.old)) \cup (mutator.left \ {k})
        BY <1>5, <1>9, <2>2 DEF Holding, Working
    <2>5. Holding' = Holding \ {k}
        BY <1>2, <2>1, <2>3, <2>4, ListedStays
    <2>6. ~interrupted => DOMAIN blob = Holding
        BY DEF MutatorInv
    <2>7. MutatorInv'
        BY <1>2, <1>3, <1>4, <1>5, <1>6, <1>9, <2>1, <2>2, <2>5, <2>6 DEF MutatorInv, Working
    <2> QED BY <1>7, <2>7
<1> QED BY <1>4, <1>8, <1>9

LEMMA DeleteMetaStore ==
    ASSUME StoreInv, MutatorInv, DeleteMeta
    PROVE  Onward /\ StoreInv' /\ MutatorInv'
<1>1. PICK t : t = mutator.table
    OBVIOUS
<1>2. /\ Working("delete", "erase") /\ mutator.left = {}
      /\ meta' = [meta EXCEPT ![t] = NoMeta] /\ mutator' = [mutator EXCEPT !.at = "bump"]
      /\ UNCHANGED <<ver, blob, content, interrupted>>
    BY <1>1 DEF DeleteMeta, Then, Others, counts
<1>3. /\ t \in Tables /\ mutator.old = meta[t] /\ DOMAIN mutator = DOMAIN AtRest
      /\ DOMAIN meta = Tables /\ ver \in [Tables -> Nat]
    BY <1>1, <1>2 DEF MutatorInv, Working, AtRest, StoreInv
<1>4. /\ mutator'.op = "delete" /\ mutator'.at = "bump" /\ mutator'.table = t
      /\ DOMAIN mutator' = DOMAIN AtRest
    BY <1>1, <1>2, <1>3 DEF Working, AtRest
<1>5. /\ DOMAIN meta' = Tables /\ meta'[t] = NoMeta
      /\ \A u \in Tables : u # t => meta'[u] = meta[u]
    BY <1>2, <1>3
<1>6. ~Working("store", "parts")' /\ ~Working("store", "erase")' /\ ~Working("delete", "erase")'
    BY <1>4 DEF Working
<1>7. Onward /\ StoreInv'
    BY <1>2, <1>3, <1>5, <1>6, VersionsAreNaturals, WritesNothing
<1>8. MutatorInv'
    <2>1. Keys(t, meta[t])' = {}
        BY <1>5 DEF Keys, NoMeta
    <2>2. Listed' = Listed \ Keys(t, meta[t])
        BY <1>3, <1>5, <2>1, ListedWithout
    <2>3. Holding = Listed \ Keys(t, meta[t])
        BY <1>1, <1>2, <1>3 DEF Holding, Working
    <2>4. Holding' = Listed'
        BY <1>6 DEF Holding
    <2>5. ~interrupted => DOMAIN blob = Holding
        BY DEF MutatorInv
    <2> QED BY <1>2, <1>3, <1>4, <1>6, <2>2, <2>3, <2>4, <2>5 DEF MutatorInv
<1> QED BY <1>7, <1>8

LEMMA BumpStore ==
    ASSUME StoreInv, MutatorInv, BumpForDelete
    PROVE  Onward /\ StoreInv' /\ MutatorInv'
<1>1. PICK t : t = mutator.table
    OBVIOUS
<1>2. /\ Working("delete", "bump") /\ ver' = [ver EXCEPT ![t] = @ + 1]
      /\ mutator' = [mutator EXCEPT !.at = "history"]
      /\ UNCHANGED <<meta, blob, content, interrupted>>
    BY <1>1 DEF BumpForDelete, Bumped, Then, Others, counts
<1>3. /\ t \in Tables /\ DOMAIN mutator = DOMAIN AtRest
      /\ DOMAIN meta = Tables /\ ver \in [Tables -> Nat]
    BY <1>1, <1>2 DEF MutatorInv, Working, AtRest, StoreInv
<1>4. /\ mutator'.op = "delete" /\ mutator'.at = "history" /\ mutator'.table = t
      /\ DOMAIN mutator' = DOMAIN AtRest
    BY <1>1, <1>2, <1>3 DEF Working, AtRest
<1>5. ~Working("store", "parts")' /\ ~Working("store", "erase")' /\ ~Working("delete", "erase")'
    BY <1>4 DEF Working
<1>6. ver' \in [Tables -> Nat] /\ \A u \in Tables : ver[u] <= ver'[u]
    BY <1>2, <1>3
<1>7. Onward /\ StoreInv'
    BY <1>2, <1>3, <1>5, <1>6, WritesNothing
<1>8. MutatorInv'
    <2>1. Holding = Listed
        BY <1>2 DEF Holding, Working
    <2>2. Holding' = Listed'
        BY <1>5 DEF Holding
    <2>3. ~interrupted => DOMAIN blob = Holding
        BY DEF MutatorInv
    <2> QED BY <1>2, <1>3, <1>4, <1>5, <2>1, <2>2, <2>3, ListedStays DEF MutatorInv
<1> QED BY <1>7, <1>8

(* The end of an upload or delete, its failure, a crash of the process. *)
LEMMA RestStore ==
    ASSUME StoreInv, MutatorInv, DeleteHistory \/ MutatorFails \/ Crash
    PROVE  Onward /\ StoreInv' /\ MutatorInv'
<1>1. /\ mutator' = AtRest /\ UNCHANGED stored
      /\ ~interrupted' => ~interrupted /\ (mutator = AtRest \/ Working("delete", "history"))
    <2>1. CASE DeleteHistory
        BY <2>1 DEF DeleteHistory, Others, counts
    <2>2. CASE MutatorFails
        BY <2>2 DEF MutatorFails, stored
    <2>3. CASE Crash
        BY <2>3 DEF Crash, stored
    <2> QED BY <2>1, <2>2, <2>3
<1>2. UNCHANGED <<ver, meta, blob, content>>
    BY <1>1 DEF stored
<1>3. ~Working("store", "parts")' /\ ~Working("store", "erase")' /\ ~Working("delete", "erase")'
    BY <1>1 DEF Working, AtRest
<1>4. Onward /\ StoreInv'
    <2>1. ver' \in [Tables -> Nat] /\ DOMAIN meta' = Tables
        BY <1>2 DEF StoreInv
    <2> QED BY <1>2, <1>3, <2>1, VersionsAreNaturals, WritesNothing
<1>5. MutatorInv'
    <2>1. Holding' = Listed
        BY <1>2, <1>3, ListedStays DEF Holding
    <2>2. mutator = AtRest \/ Working("delete", "history") => Holding = Listed
        BY DEF Holding, Working, AtRest
    <2>3. ~interrupted => DOMAIN blob = Holding
        BY DEF MutatorInv
    <2> QED BY <1>1, <1>2, <1>3, <2>1, <2>2, <2>3 DEF MutatorInv
<1> QED BY <1>4, <1>5

(* A step that touches neither the store nor an upload or delete *)
LEMMA OtherStore ==
    ASSUME StoreInv, MutatorInv, UNCHANGED <<stored, mutator, interrupted>>
    PROVE  Onward /\ StoreInv' /\ MutatorInv'
<1>1. UNCHANGED <<ver, meta, blob, content>>
    BY DEF stored
<1>2. Onward /\ StoreInv'
    <2>1. ver' \in [Tables -> Nat] /\ DOMAIN meta' = Tables
        BY <1>1 DEF StoreInv
    <2> QED BY <1>1, <2>1, VersionsAreNaturals, WritesNothing
<1>3. MutatorInv'
    <2>1. Holding' = Holding
        BY <1>1, ListedStays DEF Holding, Working, Fresh
    <2> QED BY <1>1, <2>1 DEF MutatorInv, Working, Fresh
<1> QED BY <1>2, <1>3

-----------------------------------------------------------------------------
(* The cache *)

LEMMA OverItsRange == ASSUME NEW S, NEW s \in Seq(S) PROVE s \in Seq(Range(s)) /\ Range(s) \subseteq S
<1>0. Len(s) \in Nat /\ DOMAIN s = 1..Len(s)
    OBVIOUS
<1>1. Len(s) \in Nat /\ DOMAIN s = 1..Len(s) /\ \A i \in 1..Len(s) : s[i] \in S
    BY <1>0
<1>2. s \in [1..Len(s) -> Range(s)]
    <2>1. s = [i \in DOMAIN s |-> s[i]]
        OBVIOUS
    <2> QED BY <1>1, <2>1 DEF Range
<1>3. s \in Seq(Range(s))
    BY <1>1, <1>2
<1> QED BY <1>1, <1>3 DEF Range

LEMMA RemoveFacts ==
    ASSUME NEW S, NEW s \in Seq(S), NEW i \in DOMAIN s
    PROVE  RemoveAt(s, i) \in Seq(S)
<1>1. i \in 1..Len(s) /\ Len(s) \in Nat
    OBVIOUS
<1>2. SubSeq(s, 1, i - 1) \in Seq(S)
    BY <1>1
<1>3. SubSeq(s, i + 1, Len(s)) \in Seq(S)
    BY <1>1
<1> QED BY <1>2, <1>3 DEF RemoveAt

LEMMA EntryIn ==
    ASSUME NEW S, NEW s \in Seq(S), NEW i \in DOMAIN s
    PROVE  s[i] \in S /\ s[i] \in Range(s)
BY DEF Range

(* The cache keeps good entries, and gets others that are good. *)
LEMMA CacheStays ==
    ASSUME Onward, CacheInv, NEW S, cache' \in Seq(S),
           \A e \in S : e \in Range(cache) \/ EntryOk(e)
    PROVE  CacheInv'
<1>1. cache' \in Seq(Range(cache')) /\ Range(cache') \subseteq S
    <2>1. PICK s : s = cache'
        OBVIOUS
    <2>2. s \in Seq(Range(s)) /\ Range(s) \subseteq S
        BY <2>1, OverItsRange
    <2> QED BY <2>1, <2>2
<1>2. \A e \in Range(cache') : EntryOk(e)
    BY <1>1 DEF CacheInv
<1>3. \A e \in Range(cache') : EntryOk(e)'
    BY <1>2, EntryStays
<1>4. Range(cache)' = Range(cache')
    BY DEF Range
<1> QED BY <1>1, <1>3, <1>4 DEF CacheInv

LEMMA CacheUnchanged == ASSUME Onward, CacheInv, UNCHANGED cache PROVE CacheInv'
<1>1. cache' \in Seq(Range(cache))
    BY DEF CacheInv
<1> QED BY <1>1, CacheStays

(* A key found names the entry's query and the versions of its tables. *)
LEMMA FoundFacts ==
    ASSUME NEW q, NEW i \in Found(q)
    PROVE  /\ i \in DOMAIN cache /\ cache[i].key.text = q.sql.text
           /\ DOMAIN cache[i].key.versions = DOMAIN q.metas
           /\ \A t \in DOMAIN q.metas : cache[i].key.versions[t] = q.metas[t].version
<1>1. i \in DOMAIN cache /\ cache[i].key = Key(q)
    BY DEF Found
<1> QED BY <1>1 DEF Key

(* What was right for these versions of these tables is right for meta records
   that have them. *)
LEMMA SameVersions ==
    ASSUME NEW sql, NEW answer, NEW metas, NEW versions, AllListable(metas),
           DOMAIN versions = DOMAIN metas,
           \A t \in DOMAIN metas : versions[t] = metas[t].version
    PROVE  Right(sql, MetasOf(versions), answer) <=> Right(sql, metas, answer)
<1>1. PICK M : M = MetasOf(versions)
    OBVIOUS
<1>2. DOMAIN M = DOMAIN metas /\ \A t \in DOMAIN metas : M[t] = MetaOf(t, versions[t])
    BY <1>1 DEF MetasOf
<1>3. \A t \in DOMAIN metas : M[t] = metas[t]
    BY <1>2 DEF AllListable, Listable
<1>4. Gone(M) <=> Gone(metas)
    BY <1>2, <1>3 DEF Gone
<1>5. ASSUME NEW r PROVE r \in Exact(sql, M) <=> r \in Exact(sql, metas)
    <2>1. r \in Exact(sql, M) <=> \E t \in DOMAIN M : \E i \in 1..M[t].parts :
                 r \in Rows(sql, t, i, content[<<t, M[t].version>>][i])
        BY InExact
    <2>2. r \in Exact(sql, metas) <=> \E t \in DOMAIN metas : \E i \in 1..metas[t].parts :
                 r \in Rows(sql, t, i, content[<<t, metas[t].version>>][i])
        BY InExact
    <2> QED BY <1>2, <1>3, <2>1, <2>2
<1>6. Exact(sql, M) = Exact(sql, metas)
    BY <1>5
<1> QED BY <1>1, <1>4, <1>6 DEF Right

(* The entry a query puts *)
LEMMA EntryMade ==
    ASSUME NEW q, AllListable(q.metas), q.sql \in Statements, Right(q.sql, q.metas, q.got)
    PROVE  EntryOk([key |-> Key(q), answer |-> q.got])
<1> DEFINE versions == Key(q).versions
<1>1. /\ Key(q).text = q.sql.text /\ DOMAIN versions = DOMAIN q.metas
      /\ \A t \in DOMAIN q.metas : versions[t] = q.metas[t].version
    BY DEF Key
<1>2. DOMAIN versions \subseteq Tables /\ \A t \in DOMAIN versions : Written(t, versions[t])
    BY <1>1 DEF AllListable, Listable
<1>3. ASSUME NEW sql \in Statements, sql.text = Key(q).text
      PROVE  Right(sql, MetasOf(versions), q.got)
    <2>1. sql = q.sql
        BY <1>1, <1>3, TextsTell
    <2> HIDE DEF versions
    <2> QED BY <1>1, <2>1, SameVersions
<1> QED BY <1>2, <1>3 DEF EntryOk

(* The answer of the entry a query finds *)
LEMMA EntryServes ==
    ASSUME CacheInv, NEW q, AllListable(q.metas), q.sql \in Statements, NEW i \in Found(q)
    PROVE  Right(q.sql, q.metas, cache[i].answer)
<1> DEFINE versions == cache[i].key.versions
<1>1. /\ i \in DOMAIN cache /\ cache[i].key.text = q.sql.text
      /\ DOMAIN versions = DOMAIN q.metas
      /\ \A t \in DOMAIN q.metas : versions[t] = q.metas[t].version
    BY FoundFacts
<1>2. EntryOk(cache[i])
    BY <1>1 DEF CacheInv, Range
<1>3. Right(q.sql, MetasOf(versions), cache[i].answer)
    BY <1>1, <1>2 DEF EntryOk
<1> HIDE DEF versions
<1> QED BY <1>1, <1>3, SameVersions

-----------------------------------------------------------------------------
(* Queries *)

LEMMA IdleFields ==
    /\ Idle.at = "idle" /\ Idle.answer = NoAnswer /\ DOMAIN Idle.metas = {}
    /\ Idle.keys = {} /\ Idle.got = {} /\ Idle.views = FALSE
BY DEF Idle

LEMMA ThreadMoves ==
    ASSUME Onward, ThreadsInv, NEW c \in Threads, NEW q, thread' = [thread EXCEPT ![c] = q],
           DOMAIN q = DOMAIN Idle,
           IF q.at = "idle" THEN q.answer = NoAnswer ELSE QueryOk(q)
    PROVE  ThreadsInv'
<1>1. /\ DOMAIN thread' = Threads /\ thread'[c] = q
      /\ \A d \in Threads : d # c => thread'[d] = thread[d]
    BY StepFacts DEF ThreadsInv
<1>2. ASSUME NEW d \in Threads
      PROVE  IF thread'[d].at = "idle" THEN thread'[d].answer = NoAnswer
             ELSE QueryOk(thread[d])'
    <2>1. CASE d # c
        <3>1. thread'[d] = thread[d]
            BY <1>1, <2>1
        <3>2. thread[d].at # "idle" => QueryOk(thread[d])
            BY DEF ThreadsInv
        <3>3. thread[d].at = "idle" => thread[d].answer = NoAnswer
            BY DEF ThreadsInv
        <3> QED BY <3>1, <3>2, <3>3, OtherQueries
    <2>2. CASE d = c
        <3>1. q.at # "idle" => QueryOk(q)'
            BY QueryStays
        <3> QED BY <1>1, <2>2, <3>1
    <2> QED BY <2>1, <2>2
<1> QED BY <1>1, <1>2 DEF ThreadsInv

LEMMA ThreadsUnchanged == ASSUME Onward, ThreadsInv, UNCHANGED thread PROVE ThreadsInv'
<1>1. ASSUME NEW d \in Threads
      PROVE  IF thread'[d].at = "idle" THEN thread'[d].answer = NoAnswer
             ELSE QueryOk(thread[d])'
    <2>1. thread'[d] = thread[d]
        OBVIOUS
    <2>2. thread[d].at # "idle" => QueryOk(thread[d])
        BY DEF ThreadsInv
    <2>3. thread[d].at = "idle" => thread[d].answer = NoAnswer
        BY DEF ThreadsInv
    <2> QED BY <2>1, <2>2, <2>3, OtherQueries
<1> QED BY <1>1 DEF ThreadsInv

(* A query that ends keeps what it has. *)
LEMMA EndingOk ==
    ASSUME NEW p, NEW q, QueryOk(p), DOMAIN p = DOMAIN Idle, q = [p EXCEPT !.at = "ending"]
    PROVE  DOMAIN q = DOMAIN Idle /\ q.at # "idle" /\ QueryOk(q)
<1>1. /\ DOMAIN q = DOMAIN Idle /\ q.at = "ending" /\ q.sql = p.sql /\ q.views = p.views
      /\ q.metas = p.metas /\ q.left = p.left /\ q.answer = p.answer
    BY DEF Idle
<1> QED BY <1>1 DEF QueryOk

(* What a thread is about to do *)
LEMMA AtWork ==
    ASSUME ThreadsInv, NEW c \in Threads, thread[c].at # "idle"
    PROVE  QueryOk(thread[c]) /\ DOMAIN thread[c] = DOMAIN Idle
BY DEF ThreadsInv

LEMMA StartOk ==
    ASSUME NEW q, DOMAIN q = DOMAIN Idle, q.at = "metas", DOMAIN q.metas = {},
           q.sql.tables \in Seq(Tables), q.sql.tables # <<>>, q.left = q.sql.tables,
           \A p \in q.sql.prunes : IsConjunct(p), q.views \/ q.sql \in Statements,
           q.keys = {}, q.got = {}, q.answer = NoAnswer
    PROVE  QueryOk(q)
BY DEF QueryOk, AllListable

LEMMA StartQueryThreads ==
    ASSUME Onward, ThreadsInv, NEW c \in Threads, NEW sql \in Statements, NEW id \in QueryIds,
           StartQuery(c, sql, id)
    PROVE  ThreadsInv'
<1>1. PICK q : q = [Idle EXCEPT !.at = "metas", !.sql = sql, !.id = id, !.left = sql.tables]
    OBVIOUS
<1>2. thread' = [thread EXCEPT ![c] = q]
    BY <1>1 DEF StartQuery, Step
<1>3. /\ DOMAIN q = DOMAIN Idle /\ q.at = "metas" /\ q.sql = sql /\ q.left = sql.tables
      /\ DOMAIN q.metas = {} /\ q.keys = {} /\ q.got = {} /\ q.answer = NoAnswer
    BY <1>1 DEF Idle
<1>4. /\ sql.tables \in Seq(Tables) /\ sql.tables # <<>>
      /\ \A p \in sql.prunes : IsConjunct(p)
    <2>1. sql.prunes \subseteq UNION {sql.reads[n].where : n \in DOMAIN sql.reads}
          /\ \A n \in DOMAIN sql.reads : \A p \in sql.reads[n].where : IsConjunct(p)
        BY StatementsAssumption
    <2> QED BY <2>1, StatementsAssumption
<1>5. QueryOk(q)
    BY <1>3, <1>4, StartOk
<1> QED BY <1>2, <1>3, <1>5, ThreadMoves

LEMMA StartViewThreads ==
    ASSUME Onward, ThreadsInv, NEW c \in Threads, NEW t \in Tables, StartView(c, t)
    PROVE  ThreadsInv'
<1>1. PICK q : q = [Idle EXCEPT !.at = "metas", !.views = TRUE, !.left = <<t>>,
                       !.sql = [text |-> "", tables |-> <<t>>, prunes |-> {},
                                reads |-> <<[table |-> t, where |-> {}]>>]]
    OBVIOUS
<1>2. thread' = [thread EXCEPT ![c] = q]
    BY <1>1 DEF StartView, Step
<1>3. /\ DOMAIN q = DOMAIN Idle /\ q.at = "metas" /\ q.left = <<t>> /\ q.views
      /\ q.sql = [text |-> "", tables |-> <<t>>, prunes |-> {},
                  reads |-> <<[table |-> t, where |-> {}]>>]
      /\ DOMAIN q.metas = {} /\ q.keys = {} /\ q.got = {} /\ q.answer = NoAnswer
    BY <1>1 DEF Idle
<1>4. q.sql.tables = <<t>> /\ q.sql.prunes = {} /\ <<t>> \in Seq(Tables) /\ <<t>> # <<>>
    <2>0. PICK text, reads :
             q.sql = [text |-> text, tables |-> <<t>>, prunes |-> {}, reads |-> reads]
        BY <1>3, Zenon
    <2>1. q.sql.tables = <<t>> /\ q.sql.prunes = {}
        BY <2>0
    <2>2. <<t>> \in Seq(Tables)
        OBVIOUS
    <2>3. <<t>> # <<>>
        OBVIOUS
    <2> QED BY <2>1, <2>2, <2>3
<1>5. QueryOk(q)
    BY <1>3, <1>4, StartOk
<1> QED BY <1>2, <1>3, <1>5, ThreadMoves

LEMMA ReadMetaThreads ==
    ASSUME Onward, StoreInv, ThreadsInv, NEW c \in Threads, ReadMeta(c)
    PROVE  ThreadsInv'
<1>1. PICK p, t : p = thread[c] /\ t = Head(p.left)
    OBVIOUS
<1>2. p.at = "metas" /\ p.left # <<>>
    BY <1>1 DEF ReadMeta, At
<1>3. QueryOk(p) /\ DOMAIN p = DOMAIN Idle
    BY <1>1, <1>2, AtWork
<1>4. CASE meta[t] = NoMeta
    <2>1. PICK q : q = [p EXCEPT !.at = "ending"]
        OBVIOUS
    <2>2. thread' = [thread EXCEPT ![c] = q]
        BY <1>1, <1>4, <2>1 DEF ReadMeta, Goes, Step
    <2> QED BY <1>3, <2>1, <2>2, EndingOk, ThreadMoves
<1>5. CASE meta[t] # NoMeta
    <2>1. PICK q : q = [p EXCEPT !.metas = Put(@, t, meta[t]), !.left = Tail(@)]
        OBVIOUS
    <2>2. thread' = [thread EXCEPT ![c] = q]
        BY <1>1, <1>5, <2>1 DEF ReadMeta, Step
    <2>3. /\ DOMAIN q = DOMAIN Idle /\ q.at = "metas" /\ q.sql = p.sql /\ q.views = p.views
          /\ q.metas = Put(p.metas, t, meta[t]) /\ q.left = Tail(p.left)
          /\ q.keys = p.keys /\ q.got = p.got /\ q.answer = p.answer
        BY <1>2, <1>3, <2>1 DEF Idle
    <2>4. /\ DOMAIN q.metas = DOMAIN p.metas \cup {t} /\ q.metas[t] = meta[t]
          /\ \A u \in DOMAIN p.metas : u # t => q.metas[u] = p.metas[u]
        BY <2>3 DEF Put
    <2>5. p.left \in Seq(Tables) /\ AllListable(p.metas)
          /\ Range(p.sql.tables) = DOMAIN p.metas \cup Range(p.left)
        BY <1>2, <1>3 DEF QueryOk
    <2>6. /\ t \in Tables /\ Tail(p.left) \in Seq(Tables) /\ t \in Range(p.left)
          /\ Range(q.left) \subseteq Range(p.left)
          /\ \A x \in Range(p.left) : x = t \/ x \in Range(q.left)
        BY <1>1, <1>2, <2>3, <2>5, TailFacts
    <2>7. AllListable(q.metas)
        <3>1. Listable(t, meta[t])
            BY <1>5, <2>6 DEF StoreInv
        <3> QED BY <2>4, <2>5, <2>6, <3>1 DEF AllListable
    <2>8. Range(q.sql.tables) = DOMAIN q.metas \cup Range(q.left)
        BY <2>3, <2>4, <2>5, <2>6
    <2>9. QueryOk(q)
        BY <1>2, <1>3, <2>3, <2>6, <2>7, <2>8 DEF QueryOk
    <2> QED BY <2>2, <2>3, <2>9, ThreadMoves
<1> QED BY <1>4, <1>5

LEMMA HitOk ==
    ASSUME Onward, CacheInv, ThreadsInv, NEW c \in Threads, Hit(c)
    PROVE  ThreadsInv' /\ CacheInv'
<1>1. PICK p : p = thread[c]
    OBVIOUS
<1>2. p.at = "metas" /\ ~p.views
    BY <1>1 DEF Hit, At
<1>3. QueryOk(p) /\ DOMAIN p = DOMAIN Idle
    BY <1>1, <1>2, AtWork
<1>4. PICK i \in Found(p) :
        /\ cache' = Append(RemoveAt(cache, i), cache[i])
        /\ thread' = [thread EXCEPT ![c] =
              [p EXCEPT !.at = "record", !.answer = cache[i].answer, !.left = p.sql.tables]]
    BY <1>1 DEF Hit, Step
<1>5. PICK q : q = [p EXCEPT !.at = "record", !.answer = cache[i].answer, !.left = p.sql.tables]
    OBVIOUS
<1>6. /\ DOMAIN q = DOMAIN Idle /\ q.at = "record" /\ q.sql = p.sql /\ q.views = p.views
      /\ q.metas = p.metas /\ q.left = p.sql.tables /\ q.answer = cache[i].answer
    BY <1>3, <1>5 DEF Idle
<1>7. AllListable(p.metas) /\ p.sql \in Statements
      /\ p.sql.tables \in Seq(Tables) /\ p.sql.tables # <<>>
    BY <1>2, <1>3 DEF QueryOk
<1>8. Right(p.sql, p.metas, cache[i].answer)
    BY <1>7, EntryServes
<1>9. QueryOk(q)
    BY <1>3, <1>6, <1>7, <1>8 DEF QueryOk
<1>10. i \in DOMAIN cache /\ cache \in Seq(Range(cache))
    BY <1>4, FoundFacts DEF CacheInv
<1>11. RemoveAt(cache, i) \in Seq(Range(cache)) /\ cache[i] \in Range(cache)
    BY <1>10, RemoveFacts, EntryIn
<1>12. cache' \in Seq(Range(cache))
    BY <1>4, <1>11
<1> QED BY <1>4, <1>5, <1>6, <1>9, <1>12, ThreadMoves, CacheStays

LEMMA MissOk ==
    ASSUME Onward, CacheInv, ThreadsInv, NEW c \in Threads, Miss(c)
    PROVE  ThreadsInv' /\ CacheInv'
<1>1. PICK p, q : p = thread[c] /\ q = [p EXCEPT !.at = "check", !.left = p.sql.tables]
    OBVIOUS
<1>2. /\ p.at = "metas" /\ p.left = <<>> /\ thread' = [thread EXCEPT ![c] = q]
      /\ UNCHANGED cache \/ \E i \in Found(p) : cache' = RemoveAt(cache, i)
    BY <1>1 DEF Miss, At, Step
<1>3. QueryOk(p) /\ DOMAIN p = DOMAIN Idle
    BY <1>1, <1>2, AtWork
<1>4. /\ DOMAIN q = DOMAIN Idle /\ q.at = "check" /\ q.sql = p.sql /\ q.views = p.views
      /\ q.metas = p.metas /\ q.left = p.sql.tables /\ q.answer = p.answer
      /\ q.keys = p.keys /\ q.got = p.got
    BY <1>1, <1>3 DEF Idle
<1>5. /\ Range(p.sql.tables) = DOMAIN p.metas \cup Range(p.left)
      /\ p.keys = {} /\ p.got = {} /\ p.sql.tables \in Seq(Tables)
    BY <1>2, <1>3 DEF QueryOk
<1>6. Range(p.left) = {}
    BY <1>2 DEF Range
<1>7. DOMAIN q.metas = Range(q.sql.tables) /\ Range(q.left) = DOMAIN q.metas
    BY <1>4, <1>5, <1>6
<1>8. Gathered(q)
    BY <1>4, <1>5, <1>7 DEF Gathered
<1>9. QueryOk(q)
    BY <1>2, <1>3, <1>4, <1>5, <1>7, <1>8 DEF QueryOk
<1>10. cache' \in Seq(Range(cache))
    <2>1. cache \in Seq(Range(cache))
        BY DEF CacheInv
    <2>2. ASSUME NEW i \in Found(p), cache' = RemoveAt(cache, i) PROVE cache' \in Seq(Range(cache))
        BY <2>1, <2>2, FoundFacts, RemoveFacts
    <2> QED BY <1>2, <2>1, <2>2
<1> QED BY <1>2, <1>4, <1>9, <1>10, ThreadMoves, CacheStays

(* A partition a query leaves out holds no row of its answer. *)
LEMMA NotSelected ==
    ASSUME StoreInv, NEW sql, NEW t, NEW m, NEW views, Listable(t, m),
           \A p \in sql.prunes : IsConjunct(p), PrunesAll(sql),
           NEW i \in 1..m.parts, <<t, m.version, i>> \notin Selected(sql, t, m, views)
    PROVE  Rows(sql, t, i, content[<<t, m.version>>][i]) = {}
<1> DEFINE part == content[<<t, m.version>>][i]
<1>1. <<t, m.version, i>> \in Keys(t, m)
    BY InKeys
<1>2. /\ m.version # 0 /\ \E p \in sql.prunes : ~MayMatch(m.zones[i], p)
      /\ \A n \in DOMAIN sql.reads : sql.prunes \subseteq sql.reads[n].where
    BY <1>1 DEF Selected, PrunesAll
<1>3. m = MetaOf(t, m.version) /\ <<t, m.version>> \in DOMAIN content
    BY DEF Listable, Written
<1>4. /\ MetaOf(t, m.version).parts = Len(content[<<t, m.version>>])
      /\ MetaOf(t, m.version).zones = IF m.version = 0 THEN <<>> ELSE
            [x \in 1..Len(content[<<t, m.version>>]) |-> ZoneMap(content[<<t, m.version>>][x])]
    BY MetaFields
<1>5. m.zones[i] = ZoneMap(part)
    BY <1>2, <1>3, <1>4
<1>6. content[<<t, m.version>>] \in Seq(SUBSET Column) /\ i \in 1..Len(content[<<t, m.version>>])
    BY <1>3, <1>4, ContentFacts
<1>7. part \in SUBSET Column
    BY <1>6
<1> HIDE DEF part
<1>8. Rows(sql, t, i, part) = {}
    BY <1>2, <1>5, <1>7, PruningIsSound
<1> QED BY <1>8 DEF part

LEMMA CheckOk ==
    ASSUME Onward, StoreInv, ThreadsInv, NEW c \in Threads, Check(c)
    PROVE  ThreadsInv'
<1>1. PICK p, t : p = thread[c] /\ t = Head(p.left)
    OBVIOUS
<1>2. p.at = "check"
    BY <1>1 DEF Check, At
<1>3. QueryOk(p) /\ DOMAIN p = DOMAIN Idle
    BY <1>1, <1>2, AtWork
<1>4. CASE IsCancelled(p)
    <2>1. PICK q : q = [p EXCEPT !.at = "ending"]
        OBVIOUS
    <2>2. thread' = [thread EXCEPT ![c] = q]
        BY <1>1, <1>4, <2>1 DEF Check, Goes, Step
    <2> QED BY <1>3, <2>1, <2>2, EndingOk, ThreadMoves
<1>5. CASE ~IsCancelled(p) /\ p.left = <<>>
    <2>1. PICK q : q = [p EXCEPT !.at = "execute"]
        OBVIOUS
    <2>2. thread' = [thread EXCEPT ![c] = q]
        BY <1>1, <1>5, <2>1 DEF Check, Goes, Step
    <2>3. /\ DOMAIN q = DOMAIN Idle /\ q.at = "execute" /\ q.sql = p.sql /\ q.views = p.views
          /\ q.metas = p.metas /\ q.left = p.left /\ q.answer = p.answer
          /\ q.keys = p.keys /\ q.got = p.got
        BY <1>3, <2>1 DEF Idle
    <2>4. QueryOk(q)
        BY <1>2, <1>3, <1>5, <2>3 DEF QueryOk, Gathered
    <2> QED BY <2>2, <2>3, <2>4, ThreadMoves
<1>6. CASE ~IsCancelled(p) /\ p.left # <<>>
    <2>1. PICK keys : keys = Selected(p.sql, t, p.metas[t], p.views)
        OBVIOUS
    <2>2. PICK q : q = [p EXCEPT !.at = IF keys = {} THEN "check" ELSE "load", !.left = Tail(@),
                                 !.keys = keys]
        OBVIOUS
    <2>3. thread' = [thread EXCEPT ![c] = q]
        BY <1>1, <1>6, <2>1, <2>2 DEF Check, Step
    <2>4. /\ DOMAIN q = DOMAIN Idle /\ q.at = (IF keys = {} THEN "check" ELSE "load")
          /\ q.sql = p.sql /\ q.views = p.views /\ q.metas = p.metas /\ q.left = Tail(p.left)
          /\ q.answer = p.answer /\ q.keys = keys /\ q.got = p.got
        BY <1>3, <2>2 DEF Idle
    <2>5. /\ p.left \in Seq(Tables) /\ AllListable(p.metas) /\ p.keys = {} /\ Gathered(p)
          /\ DOMAIN p.metas = Range(p.sql.tables) /\ Range(p.left) \subseteq DOMAIN p.metas
          /\ \A x \in p.sql.prunes : IsConjunct(x)
          /\ p.answer = NoAnswer
        BY <1>2, <1>3 DEF QueryOk
    <2>6. /\ t \in Tables /\ Tail(p.left) \in Seq(Tables) /\ t \in Range(p.left)
          /\ Range(q.left) \subseteq Range(p.left)
          /\ \A x \in Range(p.left) : x = t \/ x \in Range(q.left)
        BY <1>1, <1>6, <2>4, <2>5, TailFacts
    <2>7. keys \subseteq Keys(t, p.metas[t])
        BY <2>1 DEF Selected
    <2>8. Gathered(q)
        <3>1. q.got \subseteq Exact(q.sql, q.metas)
            BY <2>4, <2>5 DEF Gathered
        <3>2. ASSUME PrunesAll(p.sql), NEW u \in DOMAIN p.metas, u \notin Range(q.left),
                     NEW i \in 1..p.metas[u].parts
              PROVE  LET k == <<u, p.metas[u].version, i>> IN
                     \/ k \in keys \/ k \notin DOMAIN blob
                     \/ Rows(p.sql, u, i, content[<<u, p.metas[u].version>>][i]) \subseteq p.got
            <4>1. CASE u = t
                <5>1. Listable(t, p.metas[t])
                    BY <3>2, <4>1, <2>5 DEF AllListable
                <5>2. <<t, p.metas[t].version, i>> \notin keys =>
                         Rows(p.sql, t, i, content[<<t, p.metas[t].version>>][i]) = {}
                    BY <2>1, <2>5, <3>2, <4>1, <5>1, NotSelected
                <5> QED BY <4>1, <5>2
            <4>2. CASE u # t
                <5>1. u \notin Range(p.left)
                    BY <2>6, <3>2, <4>2
                <5> QED BY <2>5, <3>2, <5>1 DEF Gathered
            <4> QED BY <4>1, <4>2
        <3> QED BY <2>4, <3>1, <3>2 DEF Gathered
    <2>9. q.keys \subseteq UNION {Keys(u, q.metas[u]) : u \in DOMAIN q.metas}
        BY <2>4, <2>5, <2>6, <2>7
    <2>10. QueryOk(q)
        BY <1>2, <1>3, <2>4, <2>5, <2>6, <2>8, <2>9 DEF QueryOk
    <2> QED BY <2>3, <2>4, <2>10, ThreadMoves
<1> QED BY <1>4, <1>5, <1>6

LEMMA LoadOk ==
    ASSUME Onward, StoreInv, ThreadsInv, NEW c \in Threads, Load(c)
    PROVE  ThreadsInv'
<1>1. PICK p : p = thread[c]
    OBVIOUS
<1>2. p.at = "load"
    BY <1>1 DEF Load, At
<1>3. QueryOk(p) /\ DOMAIN p = DOMAIN Idle
    BY <1>1, <1>2, AtWork
<1>4. PICK k \in p.keys : thread' = [thread EXCEPT ![c] =
        [p EXCEPT !.keys = @ \ {k}, !.at = IF p.keys = {k} THEN "check" ELSE @,
             !.got = IF k \in DOMAIN blob THEN @ \cup Rows(p.sql, k[1], k[3], blob[k]) ELSE @]]
    BY <1>1 DEF Load, Step, InTurn
<1>5. PICK q : q =
        [p EXCEPT !.keys = @ \ {k}, !.at = IF p.keys = {k} THEN "check" ELSE @,
             !.got = IF k \in DOMAIN blob THEN @ \cup Rows(p.sql, k[1], k[3], blob[k]) ELSE @]
    OBVIOUS
<1>6. /\ DOMAIN q = DOMAIN Idle /\ q.at = (IF p.keys = {k} THEN "check" ELSE "load")
      /\ q.sql = p.sql /\ q.views = p.views /\ q.metas = p.metas /\ q.left = p.left
      /\ q.answer = p.answer /\ q.keys = p.keys \ {k}
      /\ q.got = IF k \in DOMAIN blob THEN p.got \cup Rows(p.sql, k[1], k[3], blob[k]) ELSE p.got
    BY <1>2, <1>3, <1>5 DEF Idle
<1>7. /\ p.keys \subseteq UNION {Keys(u, p.metas[u]) : u \in DOMAIN p.metas}
      /\ Gathered(p) /\ AllListable(p.metas)
    BY <1>2, <1>3 DEF QueryOk
<1>8. PICK t \in DOMAIN p.metas : k \in Keys(t, p.metas[t])
    BY <1>7
<1>9. PICK i \in 1..p.metas[t].parts : k = <<t, p.metas[t].version, i>>
    BY <1>8, InKeys
<1>10. k \in DOMAIN blob => blob[k] = content[<<t, p.metas[t].version>>][i]
    <2> SUFFICES ASSUME k \in DOMAIN blob
                 PROVE  blob[k] = content[<<t, p.metas[t].version>>][i]
        OBVIOUS
    <2>1. PICK y \in DOMAIN content : \E x \in DOMAIN content[y] :
             k = <<y[1], y[2], x>> /\ blob[k] = content[y][x]
        BY DEF StoreInv
    <2>2. y \in Tables \X Nat
        BY DEF StoreInv
    <2>3. y = <<y[1], y[2]>>
        BY <2>2
    <2> QED BY <1>9, <2>1, <2>3
<1>11. Gathered(q)
    <2>1. q.got \subseteq Exact(q.sql, q.metas)
        <3>1. p.got \subseteq Exact(p.sql, p.metas)
            BY <1>7 DEF Gathered
        <3>2. ASSUME NEW r \in Rows(p.sql, t, i, content[<<t, p.metas[t].version>>][i])
              PROVE  r \in Exact(p.sql, p.metas)
            BY InExact
        <3>3. k[1] = t /\ k[3] = i
            BY <1>9
        <3> QED BY <1>6, <1>10, <3>1, <3>2, <3>3
    <2>2. ASSUME PrunesAll(p.sql), NEW u \in DOMAIN p.metas, u \notin Range(p.left),
                 NEW x \in 1..p.metas[u].parts
          PROVE  LET j == <<u, p.metas[u].version, x>> IN
                 \/ j \in q.keys \/ j \notin DOMAIN blob
                 \/ Rows(p.sql, u, x, content[<<u, p.metas[u].version>>][x]) \subseteq q.got
        <3> DEFINE j == <<u, p.metas[u].version, x>>
        <3>1. CASE j = k
            <4>1. u = t /\ x = i /\ k[1] = t /\ k[3] = i
                BY <1>9, <3>1
            <4> QED BY <1>6, <1>10, <3>1, <4>1
        <3>2. CASE j # k
            <4>1. \/ j \in p.keys \/ j \notin DOMAIN blob
                  \/ Rows(p.sql, u, x, content[<<u, p.metas[u].version>>][x]) \subseteq p.got
                BY <1>7, <2>2 DEF Gathered
            <4>2. p.got \subseteq q.got
                BY <1>6
            <4> QED BY <1>6, <3>2, <4>1, <4>2
        <3> QED BY <3>1, <3>2
    <2> QED BY <1>6, <2>1, <2>2 DEF Gathered
<1>12. QueryOk(q)
    BY <1>2, <1>3, <1>6, <1>11 DEF QueryOk
<1>13. thread' = [thread EXCEPT ![c] = q]
    BY <1>4, <1>5
<1>14. q.at # "idle"
    BY <1>6
<1> QED BY <1>6, <1>12, <1>13, <1>14, ThreadMoves

(* What a query has found when it has read all its tables is its answer. *)
LEMMA FoundIsRight ==
    ASSUME NEW p, QueryOk(p), p.at = "execute"
    PROVE  Right(p.sql, p.metas, p.got)
<1>1. p.left = <<>> /\ p.keys = {} /\ Gathered(p)
    BY DEF QueryOk
<1>2. Range(p.left) = {}
    BY <1>1 DEF Range
<1>3. ASSUME ~Gone(p.metas), PrunesAll(p.sql), NEW r \in Exact(p.sql, p.metas) PROVE r \in p.got
    <2>1. PICK t \in DOMAIN p.metas : \E i \in 1..p.metas[t].parts :
              r \in Rows(p.sql, t, i, content[<<t, p.metas[t].version>>][i])
        BY <1>3, InExact
    <2>2. PICK i \in 1..p.metas[t].parts :
              r \in Rows(p.sql, t, i, content[<<t, p.metas[t].version>>][i])
        BY <2>1
    <2>3. <<t, p.metas[t].version, i>> \in DOMAIN blob
        BY <1>3, InKeys DEF Gone
    <2> QED BY <1>1, <1>2, <1>3, <2>2, <2>3 DEF Gathered
<1>4. p.got \subseteq Exact(p.sql, p.metas)
    BY <1>1 DEF Gathered
<1> QED BY <1>3, <1>4 DEF Right

LEMMA CachedFacts ==
    ASSUME NEW S, cache \in Seq(S), NEW q, [key |-> Key(q), answer |-> q.got] \in S
    PROVE  Cached(q) \in Seq(S)
<1> DEFINE entry == [key |-> Key(q), answer |-> q.got]
           others == IF Found(q) = {} THEN cache
                     ELSE RemoveAt(cache, CHOOSE i \in Found(q) : TRUE)
           all == Append(others, entry)
<1>1. others \in Seq(S)
    <2>1. CASE Found(q) = {}
        BY <2>1
    <2>2. CASE Found(q) # {}
        <3>1. (CHOOSE i \in Found(q) : TRUE) \in Found(q)
            BY <2>2
        <3>2. (CHOOSE i \in Found(q) : TRUE) \in DOMAIN cache
            BY <3>1 DEF Found
        <3> QED BY <2>2, <3>2, RemoveFacts
    <2> QED BY <2>1, <2>2
<1> HIDE DEF others
<1>2. all \in Seq(S) /\ Len(all) = Len(others) + 1 /\ Len(others) \in Nat
    BY <1>1
<1>3. all # <<>>
    BY <1>2
<1> HIDE DEF all
<1>4. Tail(all) \in Seq(S)
    BY <1>2, <1>3, TailFacts
<1> QED BY <1>2, <1>4 DEF Cached, all, others

LEMMA ExecuteOk ==
    ASSUME Onward, CacheInv, ThreadsInv, NEW c \in Threads, Execute(c)
    PROVE  ThreadsInv' /\ CacheInv'
<1>1. PICK p, q : /\ p = thread[c]
                  /\ q = [p EXCEPT !.at = "record", !.answer = p.got, !.got = {},
                                   !.left = p.sql.tables]
    OBVIOUS
<1>2. /\ p.at = "execute" /\ ~p.views /\ cache' = Cached(p)
      /\ thread' = [thread EXCEPT ![c] = q]
    BY <1>1 DEF Execute, At, Step
<1>3. QueryOk(p) /\ DOMAIN p = DOMAIN Idle
    BY <1>1, <1>2, AtWork
<1>4. /\ DOMAIN q = DOMAIN Idle /\ q.at = "record" /\ q.sql = p.sql /\ q.views = p.views
      /\ q.metas = p.metas /\ q.left = p.sql.tables /\ q.answer = p.got
    BY <1>1, <1>3 DEF Idle
<1>5. AllListable(p.metas) /\ p.sql \in Statements
      /\ p.sql.tables \in Seq(Tables) /\ p.sql.tables # <<>>
    BY <1>2, <1>3 DEF QueryOk
<1>6. Right(p.sql, p.metas, p.got)
    BY <1>2, <1>3, FoundIsRight
<1>7. QueryOk(q)
    BY <1>3, <1>4, <1>5, <1>6 DEF QueryOk
<1>8. PICK e : e = [key |-> Key(p), answer |-> p.got]
    OBVIOUS
<1>9. EntryOk(e)
    BY <1>5, <1>6, <1>8, EntryMade
<1>10. PICK S : S = Range(cache) \cup {e}
    OBVIOUS
<1>11. cache \in Seq(S)
    <2>1. cache \in Seq(Range(cache)) /\ Range(cache) \subseteq S
        BY <1>10 DEF CacheInv
    <2> QED BY <2>1
<1>12. cache' \in Seq(S)
    BY <1>2, <1>8, <1>10, <1>11, CachedFacts
<1> QED BY <1>2, <1>4, <1>7, <1>9, <1>10, <1>12, ThreadMoves, CacheStays

LEMMA ShowOk ==
    ASSUME Onward, ThreadsInv, NEW c \in Threads, Show(c)
    PROVE  ThreadsInv'
<1>1. PICK p, q : /\ p = thread[c]
                  /\ q = [p EXCEPT !.at = "ending", !.answer = p.got, !.got = {}]
    OBVIOUS
<1>2. p.at = "execute" /\ thread' = [thread EXCEPT ![c] = q]
    BY <1>1 DEF Show, At, Step
<1>3. QueryOk(p) /\ DOMAIN p = DOMAIN Idle
    BY <1>1, <1>2, AtWork
<1>4. /\ DOMAIN q = DOMAIN Idle /\ q.at = "ending" /\ q.sql = p.sql /\ q.views = p.views
      /\ q.metas = p.metas /\ q.left = p.left /\ q.answer = p.got
    BY <1>1, <1>3 DEF Idle
<1>5. Right(p.sql, p.metas, p.got)
    BY <1>2, <1>3, FoundIsRight
<1>6. QueryOk(q)
    BY <1>3, <1>4, <1>5 DEF QueryOk
<1> QED BY <1>2, <1>4, <1>6, ThreadMoves

LEMMA RecordOk ==
    ASSUME Onward, ThreadsInv, NEW c \in Threads, Record(c)
    PROVE  ThreadsInv'
<1>1. PICK p, q : /\ p = thread[c]
                  /\ q = [p EXCEPT !.left = Tail(@), !.at = IF Len(p.left) = 1 THEN "ending" ELSE @]
    OBVIOUS
<1>2. p.at = "record" /\ thread' = [thread EXCEPT ![c] = q]
    BY <1>1 DEF Record, At, Step
<1>3. QueryOk(p) /\ DOMAIN p = DOMAIN Idle
    BY <1>1, <1>2, AtWork
<1>4. /\ DOMAIN q = DOMAIN Idle /\ q.at = (IF Len(p.left) = 1 THEN "ending" ELSE "record")
      /\ q.sql = p.sql /\ q.views = p.views /\ q.metas = p.metas /\ q.left = Tail(p.left)
      /\ q.answer = p.answer
    BY <1>1, <1>2, <1>3 DEF Idle
<1>5. p.left \in Seq(Tables) /\ p.left # <<>>
    BY <1>2, <1>3 DEF QueryOk
<1>6. Tail(p.left) \in Seq(Tables)
    BY <1>5, TailFacts
<1>7. Len(p.left) # 1 => Tail(p.left) # <<>>
    <2>1. Len(p.left) \in Nat /\ Len(p.left) # 0 /\ Len(Tail(p.left)) = Len(p.left) - 1
        BY <1>5
    <2>2. PICK s : s = Tail(p.left)
        OBVIOUS
    <2>3. s = <<>> => Len(s) = 0
        OBVIOUS
    <2>4. Len(p.left) # 1 => Len(s) # 0
        BY <2>1, <2>2
    <2> QED BY <2>2, <2>3, <2>4
<1>8. QueryOk(q)
    BY <1>3, <1>4, <1>6, <1>7 DEF QueryOk
<1> QED BY <1>2, <1>4, <1>8, ThreadMoves

LEMMA EndOk ==
    ASSUME Onward, ThreadsInv, NEW c \in Threads, QueryFails(c) \/ EndQuery(c)
    PROVE  ThreadsInv'
<1>1. CASE QueryFails(c)
    <2>1. PICK p, q : p = thread[c] /\ q = [p EXCEPT !.at = "ending"]
        OBVIOUS
    <2>2. p.at # "idle" /\ thread' = [thread EXCEPT ![c] = q]
        BY <1>1, <2>1 DEF QueryFails, Goes, Step
    <2>3. QueryOk(p) /\ DOMAIN p = DOMAIN Idle
        BY <2>1, <2>2, AtWork
    <2>4. DOMAIN q = DOMAIN Idle /\ q.at # "idle" /\ QueryOk(q)
        BY <2>1, <2>3, EndingOk
    <2> QED BY <2>2, <2>4, ThreadMoves
<1>2. CASE EndQuery(c)
    <2>1. thread' = [thread EXCEPT ![c] = Idle]
        BY <1>2 DEF EndQuery, Step
    <2> QED BY <2>1, IdleFields, ThreadMoves
<1> QED BY <1>1, <1>2

-----------------------------------------------------------------------------
(* The invariant *)

WarehouseInv == StoreInv /\ MutatorInv /\ ThreadsInv /\ CacheInv

LEMMA InitInv == Init => WarehouseInv
<1> SUFFICES ASSUME Init PROVE WarehouseInv
    OBVIOUS
<1>1. /\ ver = [t \in Tables |-> 0] /\ mutator = AtRest /\ cache = <<>>
      /\ meta = [t \in Tables |-> IF t \in OldTables THEN Legacy ELSE NoMeta]
      /\ content = [k \in OldTables \X {0} |-> <<OldRows>>]
      /\ blob = [k \in OldTables \X {0} \X {1} |-> OldRows]
      /\ thread = [c \in Threads |-> Idle]
    BY DEF Init
<1>2. ~Working("store", "parts") /\ ~Working("store", "erase") /\ ~Working("delete", "erase")
    BY <1>1 DEF Working, AtRest
<1>3. /\ <<OldRows>> \in Seq(SUBSET Column) /\ Len(<<OldRows>>) = 1 /\ <<OldRows>>[1] = OldRows
      /\ DOMAIN <<OldRows>> = {1}
    BY RowsAssumption
<1>4. OldTables \subseteq Tables
    BY OldTablesAssumption
<1>5. ASSUME NEW t \in OldTables PROVE Listable(t, Legacy)
    <2>1. <<t, 0>> \in DOMAIN content /\ content[<<t, 0>>] = <<OldRows>>
        BY <1>1
    <2>2. MetaOf(t, 0) = Legacy
        BY <1>3, <2>1 DEF MetaOf, Legacy
    <2>3. Legacy.version = 0
        BY DEF Legacy
    <2> QED BY <1>2, <2>1, <2>2, <2>3 DEF Listable, Written
<1>6. StoreInv
    <2>1. DOMAIN content \subseteq Tables \X Nat
        BY <1>1, <1>4
    <2>2. ASSUME NEW p \in DOMAIN content
          PROVE  content[p] \in Seq(SUBSET Column) /\ p[2] <= ver[p[1]]
        <3>1. p \in OldTables \X {0} /\ content[p] = <<OldRows>>
            BY <1>1
        <3>2. p[2] = 0 /\ ver[p[1]] = 0
            BY <1>1, <1>4, <3>1
        <3> QED BY <1>3, <3>1, <3>2
    <2>3. ASSUME NEW t \in Tables, meta[t] # NoMeta PROVE Listable(t, meta[t])
        BY <1>1, <1>5, <2>3
    <2>4. ASSUME NEW k \in DOMAIN blob
          PROVE  \E p \in DOMAIN content : \E i \in DOMAIN content[p] :
                    k = <<p[1], p[2], i>> /\ blob[k] = content[p][i]
        <3>1. PICK t \in OldTables : k = <<t, 0, 1>> /\ blob[k] = OldRows
            BY <1>1
        <3>2. <<t, 0>> \in DOMAIN content /\ content[<<t, 0>>] = <<OldRows>>
            BY <1>1
        <3> QED BY <1>3, <3>1, <3>2
    <2>5. ver \in [Tables -> Nat] /\ DOMAIN meta = Tables
        BY <1>1
    <2> QED BY <2>1, <2>2, <2>3, <2>4, <2>5 DEF StoreInv
<1>7. MutatorInv
    <2>1. Holding = Listed
        BY <1>2 DEF Holding
    <2>2. ASSUME NEW t \in Tables PROVE Keys(t, meta[t]) = IF t \in OldTables THEN {<<t, 0, 1>>} ELSE {}
        <3>1. Keys(t, Legacy) = {<<t, 0, 1>>}
            BY DEF Keys, Legacy
        <3>2. Keys(t, NoMeta) = {}
            BY DEF Keys, NoMeta
        <3> QED BY <1>1, <3>1, <3>2
    <2>3. \A k : k \in Listed <=> \E t \in OldTables : k = <<t, 0, 1>>
        <3>1. \A k : k \in Listed <=> \E t \in Tables : k \in Keys(t, meta[t])
            BY DEF Listed
        <3> QED BY <1>4, <2>2, <3>1
    <2>4. \A k : k \in DOMAIN blob <=> \E t \in OldTables : k = <<t, 0, 1>>
        BY <1>1
    <2>5. DOMAIN blob = Listed
        BY <2>3, <2>4
    <2> QED BY <1>1, <1>2, <2>1, <2>5 DEF MutatorInv
<1>8. ThreadsInv
    BY <1>1, IdleFields DEF ThreadsInv
<1>9. CacheInv
    <2>1. Range(cache) = {}
        BY <1>1 DEF Range
    <2>2. cache \in Seq({})
        BY <1>1
    <2> QED BY <2>1, <2>2 DEF CacheInv
<1> QED BY <1>6, <1>7, <1>8, <1>9 DEF WarehouseInv

LEMMA NextInv == WarehouseInv /\ [Next]_vars => WarehouseInv'
<1> SUFFICES ASSUME StoreInv, MutatorInv, ThreadsInv, CacheInv, [Next]_vars
             PROVE  StoreInv' /\ MutatorInv' /\ ThreadsInv' /\ CacheInv'
    BY DEF WarehouseInv
(* Uploads and deletes leave threads and cache alone. *)
<1>1. ASSUME NEW t \in Mutable, Delete(t) \/ \E parts \in Contents : Upload(t, parts)
      PROVE  StoreInv' /\ MutatorInv' /\ ThreadsInv' /\ CacheInv'
    <2>1. Onward /\ StoreInv' /\ MutatorInv'
        BY <1>1, DeleteStore, UploadStore
    <2>2. UNCHANGED <<thread, cache>>
        BY <1>1 DEF Delete, Upload, Begins
    <2> QED BY <2>1, <2>2, ThreadsUnchanged, CacheUnchanged
<1>2. ASSUME MutatorStep PROVE StoreInv' /\ MutatorInv' /\ ThreadsInv' /\ CacheInv'
    <2>1. Onward /\ StoreInv' /\ MutatorInv'
        BY <1>2, PutPartStore, PutMetaStore, EraseStore, DeleteMetaStore, BumpStore, RestStore
           DEF MutatorStep
    <2>2. UNCHANGED <<thread, cache>>
        BY <1>2 DEF MutatorStep, PutPart, PutMeta, Erase, DeleteMeta, BumpForDelete,
                    DeleteHistory, Others
    <2> QED BY <2>1, <2>2, ThreadsUnchanged, CacheUnchanged
<1>3. ASSUME MutatorFails PROVE StoreInv' /\ MutatorInv' /\ ThreadsInv' /\ CacheInv'
    <2>1. Onward /\ StoreInv' /\ MutatorInv'
        BY <1>3, RestStore
    <2>2. UNCHANGED <<thread, cache>>
        BY <1>3 DEF MutatorFails
    <2> QED BY <2>1, <2>2, ThreadsUnchanged, CacheUnchanged
<1>4. ASSUME Crash PROVE StoreInv' /\ MutatorInv' /\ ThreadsInv' /\ CacheInv'
    <2>1. Onward /\ StoreInv' /\ MutatorInv'
        BY <1>4, RestStore
    <2>2. cache' = <<>> /\ thread' = [c \in Threads |-> Idle]
        BY <1>4 DEF Crash
    <2>3. ThreadsInv'
        BY <2>2, IdleFields DEF ThreadsInv
    <2>4. CacheInv'
        <3>1. cache' \in Seq({})
            BY <2>2
        <3> QED BY <2>1, <3>1, CacheStays
    <2> QED BY <2>1, <2>3, <2>4
(* Queries leave the store alone. *)
<1>5. ASSUME UNCHANGED <<stored, mutator, interrupted>>
      PROVE  Onward /\ StoreInv' /\ MutatorInv'
    BY <1>5, OtherStore
<1>6. ASSUME NEW c \in Threads, NEW sql \in Statements, NEW id \in QueryIds,
             StartQuery(c, sql, id)
      PROVE  StoreInv' /\ MutatorInv' /\ ThreadsInv' /\ CacheInv'
    <2>1. UNCHANGED <<stored, mutator, interrupted>> /\ UNCHANGED cache
        BY <1>6 DEF StartQuery
    <2> QED BY <1>5, <1>6, <2>1, StartQueryThreads, CacheUnchanged
<1>7. ASSUME NEW c \in Threads, NEW t \in Tables, StartView(c, t)
      PROVE  StoreInv' /\ MutatorInv' /\ ThreadsInv' /\ CacheInv'
    <2>1. UNCHANGED <<stored, mutator, interrupted>> /\ UNCHANGED cache
        BY <1>7, Zenon DEF StartView
    <2> QED BY <1>5, <1>7, <2>1, StartViewThreads, CacheUnchanged
<1>8. ASSUME NEW c \in Threads, ThreadStep(c)
      PROVE  StoreInv' /\ MutatorInv' /\ ThreadsInv' /\ CacheInv'
    <2>1. Onward /\ StoreInv' /\ MutatorInv'
        <3>1. Unseen
            BY <1>8 DEF ThreadStep, ReadMeta, Hit, Miss, Check, Load, Execute, Show, Record,
                        QueryFails, EndQuery
        <3> QED BY <1>5, <3>1 DEF Unseen, counts
    <2>2. CASE Hit(c)
        BY <2>1, <2>2, HitOk
    <2>3. CASE Miss(c)
        BY <2>1, <2>3, MissOk
    <2>4. CASE Execute(c)
        BY <2>1, <2>4, ExecuteOk
    <2>5. CASE \/ ReadMeta(c) \/ Check(c) \/ Load(c) \/ Show(c) \/ Record(c)
               \/ QueryFails(c) \/ EndQuery(c)
        <3>1. UNCHANGED cache
            BY <2>5 DEF ReadMeta, Check, Load, Show, Record, QueryFails, EndQuery
        <3>2. ThreadsInv'
            BY <2>1, <2>5, ReadMetaThreads, CheckOk, LoadOk, ShowOk, RecordOk, EndOk
        <3> QED BY <2>1, <3>1, <3>2, CacheUnchanged
    <2> QED BY <1>8, <2>2, <2>3, <2>4, <2>5, <2>1 DEF ThreadStep
<1>9. ASSUME NEW id \in QueryIds, CancelQuery(id)
      PROVE  StoreInv' /\ MutatorInv' /\ ThreadsInv' /\ CacheInv'
    <2>1. UNCHANGED <<stored, mutator, interrupted>> /\ UNCHANGED <<cache, thread>>
        BY <1>9 DEF CancelQuery, Unseen, counts
    <2> QED BY <1>5, <2>1, ThreadsUnchanged, CacheUnchanged
<1>10. ASSUME UNCHANGED vars PROVE StoreInv' /\ MutatorInv' /\ ThreadsInv' /\ CacheInv'
    <2>1. UNCHANGED <<stored, mutator, interrupted>> /\ UNCHANGED <<cache, thread>>
        BY <1>10 DEF vars, counts
    <2> QED BY <1>5, <2>1, ThreadsUnchanged, CacheUnchanged
<1> QED BY <1>1, <1>2, <1>3, <1>4, <1>6, <1>7, <1>8, <1>9, <1>10 DEF Next

LEMMA WarehouseAlways == Spec => []WarehouseInv
BY InitInv, NextInv, PTL DEF Spec

(* A meta record listed now that has the version a query saw is the one it saw. *)
LEMMA ListedMeta ==
    ASSUME StoreInv, NEW metas, AllListable(metas), NEW t \in DOMAIN metas,
           IsListed(t, metas[t].version)
    PROVE  meta[t] = metas[t]
<1>1. t \in Tables /\ meta[t].version = metas[t].version /\ meta[t] # NoMeta
    BY DEF AllListable, IsListed
<1>2. meta[t] = MetaOf(t, meta[t].version) /\ metas[t] = MetaOf(t, metas[t].version)
    BY <1>1 DEF StoreInv, AllListable, Listable
<1> QED BY <1>1, <1>2

LEMMA NothingGone ==
    ASSUME StoreInv, NEW metas, AllListable(metas),
           \A t \in DOMAIN metas : Current(t, metas[t].version)
    PROVE  ~Gone(metas)
<1>1. ASSUME NEW t \in DOMAIN metas PROVE Keys(t, metas[t]) \subseteq DOMAIN blob
    <2>1. IsListed(t, metas[t].version) /\ Intact(t)
        BY DEF Current
    <2>2. meta[t] = metas[t]
        BY <2>1, ListedMeta
    <2> QED BY <2>1, <2>2 DEF Intact
<1> QED BY <1>1 DEF Gone

(* store_table, delete_table: between two operations, none of which was
   interrupted, the store holds the partitions of the tables it lists, and no
   others. *)
THEOREM StorageExactHolds == Spec => []StorageExact
<1>1. WarehouseInv => StorageExact
    <2> SUFFICES ASSUME MutatorInv, mutator = AtRest, ~interrupted
                 PROVE  DOMAIN blob = UNION {Keys(t, meta[t]) : t \in Tables}
        BY DEF WarehouseInv, StorageExact
    <2>1. Holding = Listed
        BY DEF Holding, Working, AtRest
    <2> QED BY <2>1 DEF MutatorInv, Listed
<1> QED BY <1>1, WarehouseAlways, PTL

(* ResultCache: an entry addressed by the versions listed now holds only rows of
   these versions; with all their partitions there, and unless it was pruned by a
   conjunct that is not about all it reads, it is the exact answer, whatever races
   of queries with uploads and deletes, failed store calls and crashes went before. *)
THEOREM CurrentEntriesExactHolds == Spec => []CurrentEntriesExact
<1>1. WarehouseInv => CurrentEntriesExact
    <2> SUFFICES ASSUME StoreInv, CacheInv, NEW e \in Range(cache),
                        \A t \in DOMAIN e.key.versions : IsListed(t, e.key.versions[t]),
                        NEW sql \in Statements, sql.text = e.key.text,
                        NEW exact, exact = Exact(sql, [t \in DOMAIN e.key.versions |-> meta[t]])
                 PROVE  /\ e.answer \subseteq exact
                        /\ PrunesAll(sql) /\ (\A t \in DOMAIN e.key.versions : Intact(t))
                              => e.answer = exact
        BY DEF WarehouseInv, CurrentEntriesExact
    <2> DEFINE versions == e.key.versions
    <2>1. /\ DOMAIN versions \subseteq Tables
          /\ \A t \in DOMAIN versions : Written(t, versions[t])
          /\ Right(sql, MetasOf(versions), e.answer)
        BY DEF CacheInv, EntryOk
    <2>2. PICK metas : metas = [t \in DOMAIN versions |-> meta[t]]
        OBVIOUS
    <2>3. DOMAIN metas = DOMAIN versions /\ \A t \in DOMAIN metas : metas[t] = meta[t]
        BY <2>2
    <2>4. \A t \in DOMAIN metas : metas[t].version = versions[t] /\ metas[t] # NoMeta
        BY <2>3 DEF IsListed
    <2>5. AllListable(metas)
        BY <2>1, <2>3, <2>4 DEF AllListable, StoreInv
    <2>6. \A t \in DOMAIN metas : IsListed(t, metas[t].version)
        BY <2>3, <2>4
    <2>7. (\A t \in DOMAIN versions : Intact(t)) => ~Gone(metas)
        BY <2>3, <2>5, <2>6, NothingGone DEF Current
    <2> HIDE DEF versions
    <2>8. Right(sql, metas, e.answer)
        BY <2>1, <2>3, <2>4, <2>5, SameVersions
    <2> QED BY <2>2, <2>7, <2>8 DEF Right, versions
<1> QED BY <1>1, WarehouseAlways, PTL

(* execute_query and table_data: a query or view whose tables no upload or delete
   has touched since it read their meta records answers exactly, whether it
   computed the answer or found it, unless it was pruned by a conjunct that is not
   about all it reads. *)
THEOREM UndisturbedAnswersExactHolds == Spec => []UndisturbedAnswersExact
<1>1. WarehouseInv => UndisturbedAnswersExact
    <2> SUFFICES ASSUME StoreInv, ThreadsInv, NEW c \in Threads, thread[c].answer # NoAnswer,
                        PrunesAll(thread[c].sql),
                        \A t \in DOMAIN thread[c].metas : Current(t, thread[c].metas[t].version)
                 PROVE  thread[c].answer = Exact(thread[c].sql, thread[c].metas)
        BY DEF WarehouseInv, UndisturbedAnswersExact
    <2>1. QueryOk(thread[c])
        BY DEF ThreadsInv
    <2>2. AllListable(thread[c].metas)
          /\ Right(thread[c].sql, thread[c].metas, thread[c].answer)
        BY <2>1 DEF QueryOk
    <2>3. ~Gone(thread[c].metas)
        BY <2>2, NothingGone
    <2> QED BY <2>2, <2>3 DEF Right
<1> QED BY <1>1, WarehouseAlways, PTL
=============================================================================
