-------------------------- MODULE MVCCStoreProofs --------------------------
(***************************************************************************)
(* Proofs about MVCCStore for any keys, gets, bounds and numbers of        *)
(* crashes: no write that returned is lost, reference counts are exact,    *)
(* get and scan agree, the newest version of a key stays visible, and a    *)
(* get that runs beside all this answers with it.  Nothing is assumed of   *)
(* the faults: a crash comes anywhere, also inside an append or between    *)
(* two unlinks, and writers overtake each other.  The properties leave out *)
(* the versions and the keys that such a step has marked, and no others.   *)
(***************************************************************************)
EXTENDS MVCCStore, FiniteSetTheorems, WellFoundedInduction, TLAPS

(* All versions in linked tables; all in any file. *)
OnDisk == UNION {file[s] : s \in disk}
InFiles == UNION {file[s] : s \in Seqs}

(* Compactions were entitled to drop these. *)
Below == {v \in Versions : v.ts < watermark}

(* Types, and that no version is younger than the clock. *)
StoreTypes ==
    /\ wal \in Seq([recs : SUBSET Versions, torn : BOOLEAN]) /\ wal # <<>>
    /\ file \in [Seqs -> SUBSET Versions]
    /\ {disk, tables, doomed} \subseteq SUBSET Seqs
    /\ seq \in 0..MaxSeq
    /\ mem \subseteq Versions /\ inflight \subseteq Versions /\ acked \subseteq Versions
    /\ behind \subseteq Versions /\ disordered \subseteq Keys /\ exposed \subseteq Keys
    /\ pc \in {"down", "idle", "logged", "written", "inserted", "cleared", "rotated",
               "merged", "unlinking"}
    /\ clock \in 0..MaxTs /\ watermark \in 0..(MaxTs + 1) /\ crashes \in 0..MaxCrashes
    /\ \A v \in Records \cup InFiles \cup mem \cup inflight \cup acked : v.ts <= clock

(* What the holder of the lock has done so far, by the point where it stands:
   which tables are linked, listed and still to be unlinked. *)
Stages ==
    /\ pc # "logged" => inflight = {}
    /\ pc # "unlinking" => doomed = {}
    /\ pc = "down" => mem = {} /\ tables = {} /\ seq = 0
    /\ pc \in {"idle", "logged", "inserted", "cleared", "rotated"} => disk = tables
    /\ pc \in {"written", "merged"} =>
          seq # 0 /\ disk = tables \cup {seq} /\ tables \subseteq 1..(seq - 1)
    /\ pc = "merged" => tables # {}
    /\ pc = "unlinking" =>
          /\ seq # 0 /\ tables = {seq} /\ disk = {seq} \cup doomed
          /\ doomed # {} /\ doomed \subseteq 1..(seq - 1)
    /\ pc # "down" => disk \subseteq 1..seq
    /\ pc \in {"written", "inserted", "cleared", "rotated"} => seq \in disk
    /\ pc \in {"written", "inserted"} => file[seq] = mem
    /\ pc \in {"cleared", "rotated"} => mem = {}
    /\ pc = "rotated" => Len(wal) > 1

StageInv == StoreTypes /\ Stages

(* What is logged behind a torn record is marked. *)
Hidden ==
    /\ \A i, j \in DOMAIN wal : i < j /\ wal[i].torn => wal[j].recs \subseteq behind
    /\ \A v \in behind : v.key \in disordered

(* Every version that returned is in the log or in a linked table, or behind a
   torn record, or a compaction could drop it; what the log still holds is
   visible; what a compaction is about to unlink it has kept. *)
DurableInv ==
    /\ Hidden
    /\ inflight \subseteq Records \cup behind
    /\ acked \subseteq Records \cup OnDisk \cup Below \cup behind
    /\ pc # "down" => Records \subseteq mem \cup inflight \cup OnDisk \cup Below \cup behind
    /\ pc \in {"merged", "unlinking"} => \A s \in disk : file[s] \subseteq file[seq] \cup Below

(* The tables a get may find in its list; the gets that use a table. *)
Listable == IF pc \in {"written", "merged"} THEN 1..(seq - 1) ELSE 1..seq
Users(s) == {g \in Getters : getter[g].using = s}

(* The state of a get call. *)
Gets == [at : {"idle", "listing", "tables", "reading", "done"}, key : Keys, ts : 0..MaxTs,
         todo : SUBSET Seqs, using : 0..MaxSeq, answer : 0..MaxTs]

(* One reference for each get that uses a table, and one for the store. *)
Counted ==
    \A s \in Seqs : refs[s] = Cardinality(Users(s)) + IF s \in tables \cup doomed THEN 1 ELSE 0

(* A get uses a table while it reads, and only tables that were listed. *)
RefInv ==
    /\ getter \in [Getters -> Gets] /\ refs \in [Seqs -> Nat]
    /\ \A g \in Getters :
          /\ getter[g].todo \subseteq Listable
          /\ getter[g].using = 0 \/ getter[g].using \in Listable
          /\ getter[g].at # "reading" => getter[g].using = 0
          /\ getter[g].at = "reading" => getter[g].using # 0
    /\ Counted

(* The versions of a key; unique timestamps. *)
Of(vs, k) == {v \in vs : v.key = k}
Unique(vs) == \A u, v \in vs : u.ts = v.ts => u = v

(* u overwrites v. *)
Later(u, v) == u.key = v.key /\ u.ts > v.ts

(* With a version, S has all those of T that overwrite it. *)
Closed(S, T) == \A v \in S, u \in T : Later(u, v) => u \in S

(* The timestamps of a key grow along the log.  Of its versions the log, the
   memtable and each newer table hold whatever overwrites one of theirs in what
   is older. *)
InOrder(k) ==
    /\ Of(mem, k) \subseteq Records
    /\ \A v \in Of(inflight, k) : v.ts = clock /\ v \in Records
    /\ \A i, j \in DOMAIN wal : i < j =>
          \A v \in Of(wal[i].recs, k), u \in Of(wal[j].recs, k) : v.ts < u.ts
    /\ Closed(Of(Records, k), acked) /\ Closed(Of(mem, k), acked)
    /\ \A s, u \in disk : s < u => Closed(Of(file[u], k), file[s])

(* Timestamps are unique; memtable and tables hold acknowledged versions, the log
   holds no others unless the process died before it acknowledged one; every key
   that is not marked is in order. *)
OrderInv ==
    /\ Unique(acked \cup Records \cup inflight)
    /\ mem \subseteq acked /\ OnDisk \subseteq acked
    /\ pc # "down" => Records \subseteq acked \cup inflight \cup behind
    /\ pc = "merged" => file[seq] = Kept(OnTables, watermark)
    /\ \A k \in Keys \ disordered : InOrder(k)

(* S shows the newest version of W, or misses a tombstone with all it hides. *)
ShowsOf(S, W) == W # {} => IF S = {} THEN NewestOf(W).dead ELSE NewestOf(W) \in S
Shows(S, A, k) == ShowsOf(Of(S, k), Of(A, k))

(* The memtable and the tables show every acknowledged version of a key that is
   not marked, after a crash the log and the linked files do. *)
Visible(k) ==
    IF pc = "down" THEN Shows(Records \cup OnDisk, acked \cup Records, k)
                   ELSE Shows(mem \cup OnTables, acked, k)
VisibleInv == \A k \in Keys \ (disordered \cup exposed) : Visible(k)

-----------------------------------------------------------------------------
(* Greatest elements *)

LEMMA Greatest ==
    ASSUME NEW top \in Nat, NEW S \in SUBSET (0..top), S # {}
    PROVE  Max(S) \in S /\ \A y \in S : y <= Max(S)
<1> DEFINE Gaps == {top - x : x \in S}
<1>1. \A x \in S : x \in Nat /\ top - x \in Nat
    OBVIOUS
<1>2. Gaps \in SUBSET Nat /\ Gaps # {}
    BY <1>1, Zenon
<1>3. PICK m \in Gaps : \A g \in Gaps : ~(<<g, m>> \in OpToRel(<, Nat))
    BY <1>2, WFMin, NatLessThanWellFounded
<1>4. PICK x \in S : m = top - x
    BY <1>3
<1>5. \A y \in S : x >= y
    <2>1. TAKE y \in S
    <2>2. top - y \in Gaps /\ top - y \in Nat /\ m \in Nat
        BY <1>1, <1>3, <1>2
    <2>3. ~(top - y < m)
        BY <1>3, <2>2 DEF OpToRel
    <2> QED BY <1>1, <1>4, <2>2, <2>3
<1>6. Max(S) \in S /\ \A y \in S : Max(S) >= y
    BY <1>5 DEF Max
<1> QED BY <1>1, <1>6

LEMMA NewestExists ==
    ASSUME NEW vs \in SUBSET Versions, vs # {}, NEW top \in Nat, \A v \in vs : v.ts <= top
    PROVE  NewestOf(vs) \in vs /\ \A u \in vs : u.ts <= NewestOf(vs).ts
<1> DEFINE stamps == {v.ts : v \in vs}
<1>1. \A v \in vs : v.ts \in Nat
    BY DEF Versions
<1>2. stamps \in SUBSET (0..top) /\ stamps # {}
    <2>1. \A v \in vs : v.ts \in 0..top
        BY <1>1
    <2> QED BY <2>1
<1> HIDE DEF stamps
<1>3. Max(stamps) \in stamps /\ \A y \in stamps : y <= Max(stamps)
    BY <1>2, Greatest
<1>4. PICK v \in vs : \A u \in vs : u.ts <= v.ts
    BY <1>3 DEF stamps
<1> QED BY <1>4 DEF NewestOf

-----------------------------------------------------------------------------
(* Stages *)

(* The steps of gets change neither the files nor what the store holds. *)
LEMMA GetSteps ==
    ASSUME NEW g \in Getters,
           (\E k \in Keys : CallGet(g, k)) \/ ListTables(g) \/ NothingFound(g) \/ Acquire(g)
             \/ ReadTable(g)
    PROVE  UNCHANGED <<diskVars, seq, tables, doomed, mem, pc, inflight, timeVars>>
BY DEF CallGet, ListTables, NothingFound, Acquire, ReadTable, tableVars

(* What is left of the next-state relation. *)
LEMMA StoreSteps ==
    ASSUME [StoreNext]_storeVars
    PROVE  \/ Write \/ Insert
           \/ WriteTable \/ InsertTable \/ ClearMemtable \/ Rotate \/ DropSegment
           \/ Merge \/ SwapTables \/ UnlinkTable
           \/ Crash \/ CrashInAppend \/ Restart
           \/ UNCHANGED <<diskVars, seq, tables, doomed, mem, pc, inflight, timeVars>>
BY GetSteps DEF StoreNext, storeVars, tableVars

(* A write gives its version a new timestamp between 1 and the bound; the key is
   marked unless the log ends well and no timestamp was as late. *)
LEMMA WriteLogs ==
    ASSUME StoreTypes, Write
    PROVE  \E v \in Versions :
              /\ Log(v) /\ v.ts \in 1..MaxTs
              /\ clock' \in 0..MaxTs /\ clock <= clock' /\ v.ts <= clock'
              /\ \A u \in acked \cup Records : u.ts # v.ts
              /\ v.key \notin disordered' => ~Torn /\ clock < v.ts /\ clock' = v.ts
<1>1. PICK k \in Keys, t \in Timestamps, d \in {FALSE, Deletes}, e \in {FALSE, Empties} :
            Log([key |-> k, ts |-> t, dead |-> d, empty |-> e])
    BY DEF Write
<1> DEFINE v == [key |-> k, ts |-> t, dead |-> d, empty |-> e]
<1>2. MaxTs \in Nat /\ Deletes \in BOOLEAN /\ Empties \in BOOLEAN /\ clock \in 0..MaxTs
    BY StoreBoundsAssumption, StoreFlagsAssumption DEF StoreTypes
<1>3. t \in 1..MaxTs /\ \A u \in acked \cup Records : u.ts # t
    BY DEF Timestamps
<1>4. v \in Versions /\ v.ts = t
    <2>1. d \in BOOLEAN /\ e \in BOOLEAN
        BY <1>2
    <2>2. t \in Nat
        BY <1>2, <1>3
    <2> QED BY <2>1, <2>2, Zenon DEF Versions
<1>5. {clock, t} \in SUBSET (0..MaxTs) /\ {clock, t} # {}
    BY <1>2, <1>3
<1>6. Max({clock, t}) \in {clock, t} /\ \A y \in {clock, t} : y <= Max({clock, t})
    BY <1>2, <1>5, Greatest
<1> HIDE DEF v
<1>7. /\ clock' = Max({clock, t}) /\ Log(v)
      /\ disordered' = IF Torn \/ t <= clock THEN disordered \cup {v.key} ELSE disordered
    BY <1>1, <1>4 DEF Log, v
<1>8. clock' \in 0..MaxTs /\ clock <= clock' /\ t <= clock'
    BY <1>2, <1>3, <1>6, <1>7
<1>9. ASSUME v.key \notin disordered' PROVE ~Torn /\ clock < t /\ clock' = t
    <2>1. ~Torn /\ ~(t <= clock)
        BY <1>7, <1>9
    <2>2. clock < t
        BY <1>2, <1>3, <2>1
    <2>3. clock' = t
        BY <1>2, <1>3, <1>6, <1>7, <2>2
    <2> QED BY <2>1, <2>2, <2>3
<1> QED BY <1>3, <1>4, <1>7, <1>8, <1>9

(* No step takes a mark from a key. *)
LEMMA MarksStay ==
    ASSUME StoreTypes, [StoreNext]_storeVars
    PROVE  disordered \subseteq disordered' /\ exposed \subseteq exposed'
<1>1. CASE Write
    <2>1. PICK v \in Versions : Log(v)
        BY <1>1, WriteLogs
    <2> QED BY <2>1 DEF Log
<1>2. CASE \/ Insert \/ WriteTable \/ InsertTable \/ ClearMemtable \/ Rotate \/ DropSegment
           \/ Merge \/ SwapTables \/ UnlinkTable
    BY <1>2 DEF Insert, WriteTable, InsertTable, ClearMemtable, Rotate, DropSegment, Merge,
                SwapTables, UnlinkTable, timeVars, marks
<1>3. CASE Crash \/ CrashInAppend \/ Restart
    BY <1>3 DEF Crash, CrashInAppend, Restart, ProcessDies, marks
<1>4. CASE UNCHANGED <<diskVars, seq, tables, doomed, mem, pc, inflight, timeVars>>
    BY <1>4 DEF timeVars, marks
<1> QED BY <1>1, <1>2, <1>3, <1>4, StoreSteps

(* A segment of the log. *)
Segments == [recs : SUBSET Versions, torn : BOOLEAN]

LEMMA AppendedTypes ==
    ASSUME NEW v \in Versions, NEW s \in Segments
    PROVE  /\ Appended(s, v) \in Segments
           /\ Appended(s, v).recs = IF s.torn THEN s.recs ELSE s.recs \cup {v}
           /\ Appended(s, v).torn = s.torn
<1>1. CASE s.torn
    BY <1>1 DEF Appended
<1>2. CASE ~s.torn
    <2>1. Appended(s, v) = [s EXCEPT !.recs = @ \cup {v}]
        BY <1>2 DEF Appended
    <2>2. s.recs \cup {v} \in SUBSET Versions
        BY DEF Segments
    <2>3. [s EXCEPT !.recs = @ \cup {v}] \in Segments
        BY <2>2 DEF Segments
    <2>4. s = [recs |-> s.recs, torn |-> s.torn]
        BY DEF Segments
    <2>5. [s EXCEPT !.recs = @ \cup {v}] = [recs |-> s.recs \cup {v}, torn |-> s.torn]
        BY <2>4
    <2> QED BY <1>2, <2>1, <2>3, <2>5
<1> QED BY <1>1, <1>2

LEMMA LogTypes ==
    ASSUME StoreTypes, NEW v \in Versions
    PROVE  /\ Len(wal) \in DOMAIN wal
           /\ LogWith(v) \in Seq(Segments) /\ DOMAIN LogWith(v) = DOMAIN wal
           /\ \A i \in DOMAIN wal :
                 LogWith(v)[i] = IF i = Len(wal) THEN Appended(wal[i], v) ELSE wal[i]
<1>1. wal \in Seq(Segments) /\ wal # <<>>
    BY DEF StoreTypes, Segments
<1>2. Len(wal) \in DOMAIN wal
    BY <1>1
<1>5. LogWith(v) = [wal EXCEPT ![Len(wal)] = Appended(wal[Len(wal)], v)]
    BY DEF LogWith
<1>6. wal[Len(wal)] \in Segments
    BY <1>1, <1>2
<1>7. Appended(wal[Len(wal)], v) \in Segments
    BY <1>6, AppendedTypes
<1> QED BY <1>1, <1>2, <1>5, <1>7

LEMMA RecordsOfLog ==
    ASSUME StoreTypes, NEW v \in Versions, wal' = LogWith(v)
    PROVE  Records' \subseteq Records \cup {v} /\ Records \subseteq Records'
<1>2. \A i \in DOMAIN wal : wal[i].recs \subseteq wal'[i].recs
    <2> SUFFICES ASSUME NEW i \in DOMAIN wal PROVE wal[i].recs \subseteq wal'[i].recs
        OBVIOUS
    <2>1. wal[i] \in Segments
        <3>1. wal \in Seq(Segments)
            BY DEF StoreTypes, Segments
        <3> QED BY <3>1
    <2>2. wal[i].recs \subseteq Appended(wal[i], v).recs
        BY <2>1, AppendedTypes
    <2> QED BY <2>2, LogTypes
<1>1. ASSUME NEW x \in Records' PROVE x \in Records \cup {v}
    <2>1. PICK i \in DOMAIN wal : x \in LogWith(v)[i].recs
        <3>1. DOMAIN wal' = DOMAIN wal
            BY LogTypes
        <3> QED BY <1>1, <3>1 DEF Records
    <2>2. wal[i] \in Segments
        <3>1. wal \in Seq(Segments)
            BY DEF StoreTypes, Segments
        <3> QED BY <2>1, <3>1, LogTypes
    <2>3. LogWith(v)[i].recs \subseteq wal[i].recs \cup {v}
        <3>1. LogWith(v)[i] = wal[i] \/ LogWith(v)[i] = Appended(wal[i], v)
            BY <2>1, LogTypes
        <3>2. Appended(wal[i], v).recs \subseteq wal[i].recs \cup {v}
            BY <2>2, AppendedTypes
        <3> QED BY <3>1, <3>2
    <2> QED BY <2>1, <2>3 DEF Records
<1>3. Records \subseteq Records'
    <2>1. DOMAIN wal' = DOMAIN wal
        BY LogTypes
    <2> QED BY <1>2, <2>1 DEF Records
<1> QED BY <1>1, <1>3

LEMMA RecordsOfRest ==
    ASSUME StoreTypes,
           \/ wal' = Append(wal, EmptySegment)
           \/ wal' = Tail(wal) /\ Len(wal) > 1
           \/ \E part \in BOOLEAN : wal' = [wal EXCEPT ![Len(wal)].torn = @ \/ part]
    PROVE  /\ wal' \in Seq(Segments) /\ wal' # <<>>
           /\ Records' \subseteq Records
<1>1. wal \in Seq(Segments) /\ wal # <<>> /\ EmptySegment \in Segments /\ Len(wal) \in DOMAIN wal
    BY DEF StoreTypes, Segments, EmptySegment
<1>2. CASE wal' = Append(wal, EmptySegment)
    <2>1. wal' \in Seq(Segments) /\ wal' # <<>>
        BY <1>1, <1>2
    <2>2. \A i \in DOMAIN wal' : (i \in DOMAIN wal /\ wal'[i] = wal[i]) \/ wal'[i] = EmptySegment
        BY <1>1, <1>2
    <2>3. EmptySegment.recs = {}
        BY DEF EmptySegment
    <2> QED BY <2>1, <2>2, <2>3 DEF Records
<1>3. CASE wal' = Tail(wal) /\ Len(wal) > 1
    <2>1. wal' \in Seq(Segments) /\ wal' # <<>>
        BY <1>1, <1>3
    <2>2. \A i \in DOMAIN wal' : i + 1 \in DOMAIN wal /\ wal'[i] = wal[i + 1]
        BY <1>1, <1>3
    <2> QED BY <2>1, <2>2 DEF Records
<1>4. ASSUME NEW part \in BOOLEAN, wal' = [wal EXCEPT ![Len(wal)].torn = @ \/ part]
      PROVE  wal' \in Seq(Segments) /\ wal' # <<>> /\ Records' \subseteq Records
    <2> DEFINE last == [wal[Len(wal)] EXCEPT !.torn = @ \/ part]
    <2>1. wal[Len(wal)] \in Segments
        BY <1>1
    <2>2. last \in Segments /\ last.recs = wal[Len(wal)].recs
        BY <2>1 DEF Segments
    <2>3. wal' = [wal EXCEPT ![Len(wal)] = last]
        BY <1>4
    <2> HIDE DEF last
    <2>4. wal' \in Seq(Segments) /\ DOMAIN wal' = DOMAIN wal
        BY <1>1, <2>2, <2>3
    <2>5. \A i \in DOMAIN wal : wal'[i].recs = wal[i].recs
        BY <1>1, <2>2, <2>3
    <2> QED BY <1>1, <2>4, <2>5 DEF Records
<1> QED BY <1>2, <1>3, <1>4

LEMMA StageInit == StoreInit => StageInv
<1> SUFFICES ASSUME StoreInit PROVE StageInv
    OBVIOUS
<1>1. EmptySegment \in Segments /\ EmptySegment.recs = {}
    BY DEF EmptySegment, Segments
<1>2. wal = <<EmptySegment>>
    BY DEF StoreInit
<1>3. wal \in Seq(Segments) /\ wal # <<>> /\ DOMAIN wal = {1} /\ wal[1] = EmptySegment
    BY <1>1, <1>2
<1>4. Records = {}
    BY <1>1, <1>3 DEF Records
<1>5. InFiles = {}
    BY DEF InFiles, StoreInit
<1>6. StoreTypes
    BY <1>3, <1>4, <1>5, StoreBoundsAssumption DEF StoreInit, StoreTypes, Segments
<1>7. Stages
    BY DEF StoreInit, Stages
<1> QED BY <1>6, <1>7 DEF StageInv

(* The version that Max finds among the tables to unlink is one of them. *)
LEMMA NextDoomed ==
    ASSUME StoreTypes, doomed # {}
    PROVE  Max(doomed) \in doomed /\ \A s \in doomed : s <= Max(doomed)
<1>1. MaxSeq \in Nat /\ doomed \in SUBSET (0..MaxSeq)
    BY StoreBoundsAssumption DEF StoreTypes, Seqs
<1> QED BY <1>1, Greatest

LEMMA VersionsTyped ==
    ASSUME StoreTypes
    PROVE  /\ Records \cup InFiles \cup mem \cup inflight \cup acked \subseteq Versions
           /\ OnDisk \subseteq InFiles /\ OnTables \subseteq InFiles
<1>1. \A i \in DOMAIN wal : wal[i] \in Segments
    <2>1. wal \in Seq(Segments)
        BY DEF StoreTypes, Segments
    <2> QED BY <2>1
<1>2. Records \subseteq Versions
    BY <1>1 DEF Records, Segments
<1>3. InFiles \subseteq Versions /\ OnDisk \subseteq InFiles /\ OnTables \subseteq InFiles
    BY DEF StoreTypes, InFiles, OnDisk, OnTables
<1> QED BY <1>2, <1>3 DEF StoreTypes

LEMMA WriteStage == StageInv /\ (Write \/ Insert) => StageInv'
<1> SUFFICES ASSUME StageInv, Write \/ Insert PROVE StageInv'
    OBVIOUS
<1>0. StoreTypes /\ Stages
    BY DEF StageInv
<1>1. CASE Write
    <2>1. PICK v \in Versions :
              /\ Log(v) /\ v.ts \in 1..MaxTs
              /\ clock' \in 0..MaxTs /\ clock <= clock' /\ v.ts <= clock'
        BY <1>0, <1>1, WriteLogs
    <2>2. wal' = LogWith(v) /\ inflight' = {v} /\ pc = "idle" /\ pc' = "logged"
          /\ UNCHANGED <<file, disk, tableVars, mem, watermark, acked, crashes, exposed, getter>>
          /\ behind' \in {behind, behind \cup {v}}
          /\ disordered' \in {disordered, disordered \cup {v.key}}
        BY <2>1 DEF Log
    <2>9. behind' \subseteq Versions /\ disordered' \subseteq Keys
        <3>1. v.key \in Keys
            BY DEF Versions
        <3> QED BY <1>0, <2>2, <3>1 DEF StoreTypes
    <2>3. wal' \in Seq(Segments) /\ wal' # <<>> /\ Records' \subseteq Records \cup {v}
        BY <1>0, <2>2, LogTypes, RecordsOfLog
    <2>4. \A u \in Records \cup InFiles \cup mem \cup acked : u.ts <= clock /\ u.ts \in Nat
        BY <1>0, VersionsTyped DEF StoreTypes, Versions
    <2>5. InFiles' = InFiles
        BY <2>2 DEF InFiles
    <2>6. \A u \in (Records \cup InFiles \cup mem \cup inflight \cup acked)' : u.ts <= clock'
        <3>1. clock \in Nat /\ clock' \in Nat
            BY <1>0, <2>1, StoreBoundsAssumption DEF StoreTypes
        <3> QED BY <2>1, <2>2, <2>3, <2>4, <2>5, <3>1
    <2>7. StoreTypes'
        BY <1>0, <2>1, <2>2, <2>3, <2>6, <2>9 DEF StoreTypes, Segments, tableVars
    <2>8. Stages'
        BY <1>0, <2>2 DEF Stages, tableVars
    <2> QED BY <2>7, <2>8 DEF StageInv
<1>2. CASE Insert
    <2>1. StoreTypes'
        BY <1>0, <1>2 DEF Insert, StoreTypes, tableVars, diskVars, marks, Records, InFiles
    <2>2. Stages'
        BY <1>0, <1>2 DEF Insert, Stages, tableVars, diskVars
    <2> QED BY <2>1, <2>2 DEF StageInv
<1> QED BY <1>1, <1>2

LEMMA FlushStage ==
    StageInv /\ (WriteTable \/ InsertTable \/ ClearMemtable \/ Rotate \/ DropSegment)
        => StageInv'
<1> SUFFICES ASSUME StageInv,
                    WriteTable \/ InsertTable \/ ClearMemtable \/ Rotate \/ DropSegment
             PROVE  StageInv'
    OBVIOUS
<1>0. StoreTypes /\ Stages /\ MaxSeq \in Nat
    BY StoreBoundsAssumption DEF StageInv
<1>1. CASE WriteTable
    <2>1. seq + 1 \in Seqs /\ seq \in Nat
        BY <1>0, <1>1 DEF WriteTable, StoreTypes, Seqs
    <2>2. /\ file' = [file EXCEPT ![seq + 1] = mem] /\ disk' = disk \cup {seq + 1} /\ seq' = seq + 1
          /\ pc' = "written" /\ UNCHANGED <<wal, tables, refs, doomed, mem, inflight, timeVars>>
        BY <1>1 DEF WriteTable
    <2>3. file' \in [Seqs -> SUBSET Versions] /\ InFiles' \subseteq InFiles \cup mem
        BY <1>0, <2>1, <2>2 DEF StoreTypes, InFiles
    <2>4. StoreTypes'
        BY <1>0, <2>1, <2>2, <2>3 DEF StoreTypes, timeVars, marks, Records, Seqs
    <2>5. file'[seq'] = mem'
        BY <1>0, <2>1, <2>2 DEF StoreTypes
    <2>6. Stages'
        BY <1>0, <1>1, <2>1, <2>2, <2>5 DEF WriteTable, Stages
    <2> QED BY <2>4, <2>6 DEF StageInv
<1>2. CASE InsertTable
    <2>1. StoreTypes'
        BY <1>0, <1>2 DEF InsertTable, StoreTypes, Stages, timeVars, marks, diskVars, Records, InFiles
    <2>2. Stages'
        BY <1>0, <1>2 DEF InsertTable, StoreTypes, Stages, timeVars, marks, diskVars
    <2> QED BY <2>1, <2>2 DEF StageInv
<1>3. CASE ClearMemtable
    <2>1. StoreTypes'
        BY <1>0, <1>3 DEF ClearMemtable, StoreTypes, timeVars, marks, diskVars, tableVars, Records, InFiles
    <2>2. Stages'
        BY <1>0, <1>3 DEF ClearMemtable, Stages, timeVars, marks, diskVars, tableVars
    <2> QED BY <2>1, <2>2 DEF StageInv
<1>4. CASE Rotate \/ DropSegment
    <2>1. /\ pc \in {"cleared", "rotated"} /\ pc' \in {"idle", "rotated"}
          /\ UNCHANGED <<file, disk, tableVars, mem, inflight, clock, watermark, acked, crashes,
                         disordered, exposed>>
          /\ behind' \subseteq behind
          /\ wal' = Append(wal, EmptySegment) \/ (wal' = Tail(wal) /\ Len(wal) > 1)
        <3>1. CASE Rotate
            BY <3>1 DEF Rotate, timeVars, marks
        <3>2. CASE DropSegment
            <4>1. pc = "rotated" /\ Len(wal) > 1
                BY <1>0, <3>2 DEF DropSegment, Stages
            <4> QED BY <3>2, <4>1 DEF DropSegment
        <3> QED BY <1>4, <3>1, <3>2
    <2>2. wal' \in Seq(Segments) /\ wal' # <<>> /\ Records' \subseteq Records
        BY <1>0, <2>1, RecordsOfRest
    <2>3. StoreTypes'
        BY <1>0, <2>1, <2>2 DEF StoreTypes, Segments, tableVars, InFiles
    <2>4. pc' = "rotated" => Len(wal)' > 1
        <3>1. wal \in Seq(Segments) /\ wal # <<>> /\ EmptySegment \in Segments
            BY <1>0 DEF StoreTypes, Segments, EmptySegment
        <3>2. CASE Rotate
            BY <3>1, <3>2 DEF Rotate
        <3>3. CASE DropSegment
            <4>1. /\ Len(wal) > 1 /\ wal' = Tail(wal)
                  /\ pc' = IF Len(wal) = 2 THEN "idle" ELSE "rotated"
                BY <1>0, <3>3 DEF DropSegment, Stages
            <4>2. Len(wal') = Len(wal) - 1 /\ Len(wal) \in Nat
                BY <3>1, <4>1
            <4>3. CASE Len(wal) = 2
                BY <4>1, <4>3
            <4>4. CASE Len(wal) # 2
                <5>1. \A n \in Nat : n > 1 /\ n # 2 => n - 1 > 1
                    OBVIOUS
                <5>2. Len(wal) - 1 > 1
                    BY <4>1, <4>2, <4>4, <5>1
                <5> QED BY <4>2, <5>2
            <4> QED BY <4>3, <4>4
        <3> QED BY <1>4, <3>2, <3>3
    <2>5. Stages'
        BY <1>0, <2>1, <2>4 DEF Stages, tableVars
    <2> QED BY <2>3, <2>5 DEF StageInv
<1> QED BY <1>1, <1>2, <1>3, <1>4

LEMMA CompactStage == StageInv /\ (Merge \/ SwapTables \/ UnlinkTable) => StageInv'
<1> SUFFICES ASSUME StageInv, Merge \/ SwapTables \/ UnlinkTable PROVE StageInv'
    OBVIOUS
<1>0. StoreTypes /\ Stages /\ MaxSeq \in Nat /\ MaxTs \in Nat
    BY StoreBoundsAssumption DEF StageInv
<1>1. CASE Merge
    <2>1. seq + 1 \in Seqs /\ seq \in Nat
        BY <1>0, <1>1 DEF Merge, StoreTypes, Seqs
    <2>2. PICK w \in watermark..(clock + 1) :
              watermark' = w /\ file' = [file EXCEPT ![seq + 1] = Kept(OnTables, w)]
        BY <1>1 DEF Merge
    <2>3. /\ disk' = disk \cup {seq + 1} /\ seq' = seq + 1 /\ pc = "idle" /\ pc' = "merged"
          /\ UNCHANGED <<wal, tables, refs, doomed, mem, inflight, clock, acked, crashes,
                         behind, disordered, exposed>>
        BY <1>1 DEF Merge, marks
    <2>4. Kept(OnTables, w) \subseteq InFiles /\ InFiles \subseteq Versions
        BY <1>0, VersionsTyped DEF Kept
    <2>5. file' \in [Seqs -> SUBSET Versions] /\ InFiles' \subseteq InFiles
        <3>1. file' \in [Seqs -> SUBSET Versions]
            BY <1>0, <2>1, <2>2, <2>4 DEF StoreTypes
        <3>2. \A s \in Seqs : file'[s] \subseteq InFiles
            BY <1>0, <2>1, <2>2, <2>4 DEF StoreTypes, InFiles
        <3> QED BY <3>1, <3>2 DEF InFiles
    <2>6. watermark' \in 0..(MaxTs + 1)
        BY <1>0, <2>2 DEF StoreTypes
    <2>7. StoreTypes'
        BY <1>0, <2>1, <2>3, <2>5, <2>6 DEF StoreTypes, Records, Seqs
    <2>8. tables # {}
        <3>1. Cardinality(tables) > 1
            BY <1>1 DEF Merge
        <3>2. Cardinality({}) = 0
            BY FS_EmptySet
        <3> QED BY <3>1, <3>2
    <2>9. Stages'
        BY <1>0, <2>1, <2>3, <2>8 DEF Stages
    <2> QED BY <2>7, <2>9 DEF StageInv
<1>2. CASE SwapTables
    <2>1. StoreTypes'
        BY <1>0, <1>2 DEF SwapTables, StoreTypes, Stages, Seqs, timeVars, marks, diskVars, Records, InFiles
    <2>2. tables # {}
        BY <1>0, <1>2 DEF SwapTables, Stages
    <2>3. Stages'
        BY <1>0, <1>2, <2>2 DEF SwapTables, StoreTypes, Stages, timeVars, marks, diskVars
    <2> QED BY <2>1, <2>3 DEF StageInv
<1>3. CASE UnlinkTable
    <2>1. pc = "unlinking" /\ doomed # {}
        BY <1>0, <1>3 DEF UnlinkTable, Stages
    <2>2. PICK s \in doomed :
              /\ disk' = disk \ {s} /\ doomed' = doomed \ {s}
              /\ pc' = IF doomed = {s} THEN "idle" ELSE "unlinking"
              /\ UNCHANGED <<wal, file, seq, tables, mem, inflight, timeVars>>
        BY <1>0, <1>3, <2>1, NextDoomed DEF UnlinkTable
    <2>3. StoreTypes'
        BY <1>0, <2>2 DEF StoreTypes, timeVars, marks, Records, InFiles
    <2>4. Stages'
        BY <1>0, <2>1, <2>2 DEF StoreTypes, Stages
    <2> QED BY <2>3, <2>4 DEF StageInv
<1> QED BY <1>1, <1>2, <1>3

LEMMA CrashStage == StageInv /\ (Crash \/ CrashInAppend \/ Restart) => StageInv'
<1> SUFFICES ASSUME StageInv, Crash \/ CrashInAppend \/ Restart PROVE StageInv'
    OBVIOUS
<1>0. StoreTypes /\ Stages /\ MaxSeq \in Nat /\ MaxCrashes \in Nat
    BY StoreBoundsAssumption DEF StageInv
<1>1. CASE Crash \/ CrashInAppend
    <2>1. /\ ProcessDies /\ disk' = disk
          /\ wal' = wal \/ \E part \in BOOLEAN : wal' = [wal EXCEPT ![Len(wal)].torn = @ \/ part]
        BY <1>1, StoreFlagsAssumption DEF Crash, CrashInAppend
    <2>2. wal' \in Seq(Segments) /\ wal' # <<>> /\ Records' \subseteq Records
        <3>1. wal \in Seq(Segments) /\ wal # <<>>
            BY <1>0 DEF StoreTypes, Segments
        <3> QED BY <1>0, <2>1, <3>1, RecordsOfRest DEF Records
    <2>5. exposed' \subseteq Keys
        <3>1. OnTables \cup mem \subseteq Versions /\ UNION {file[s] : s \in doomed} \subseteq Versions
            <4>1. \A s \in doomed : file[s] \subseteq Versions
                BY <1>0 DEF StoreTypes
            <4> QED BY <1>0, <4>1, VersionsTyped
        <3>2. Reappearing \subseteq Keys
            BY <3>1 DEF Reappearing, Versions
        <3> QED BY <1>0, <1>1, <3>2 DEF Crash, CrashInAppend, StoreTypes
    <2>3. StoreTypes'
        BY <1>0, <2>1, <2>2, <2>5 DEF ProcessDies, StoreTypes, Segments, InFiles
    <2>4. Stages'
        BY <1>0, <2>1 DEF ProcessDies, Stages
    <2> QED BY <2>3, <2>4 DEF StageInv
<1>2. CASE Restart
    <2>1. disk \cup {0} \in SUBSET (0..MaxSeq)
        BY <1>0 DEF StoreTypes, Seqs
    <2>2. seq' \in disk \cup {0} /\ \A s \in disk : s <= seq'
        BY <1>0, <1>2, <2>1, Greatest DEF Restart
    <2>3. Replayed \subseteq Records
        BY DEF Replayed, Records
    <2>4. /\ tables' = disk /\ mem' = Replayed /\ acked' = acked \cup Replayed
          /\ pc = "down" /\ pc' = "idle"
          /\ UNCHANGED <<diskVars, doomed, inflight, clock, watermark, crashes, behind, disordered,
                         exposed>>
        BY <1>2 DEF Restart, marks
    <2>5. Replayed \subseteq Versions /\ \A v \in Replayed : v.ts <= clock
        BY <1>0, <2>3, VersionsTyped DEF StoreTypes
    <2>6. StoreTypes'
        BY <1>0, <2>1, <2>2, <2>4, <2>5 DEF StoreTypes, diskVars, Records, InFiles
    <2>7. disk' \subseteq 1..seq'
        BY <1>0, <2>1, <2>2, <2>4 DEF StoreTypes, Seqs, diskVars
    <2>8. Stages'
        BY <1>0, <2>4, <2>7 DEF Stages, diskVars
    <2> QED BY <2>6, <2>8 DEF StageInv
<1> QED BY <1>1, <1>2

LEMMA StageNext == StageInv /\ [StoreNext]_storeVars => StageInv'
<1>1. ASSUME StageInv, UNCHANGED <<diskVars, seq, tables, doomed, mem, pc, inflight, timeVars>>
      PROVE  StageInv'
    BY <1>1 DEF StageInv, StoreTypes, Stages, diskVars, timeVars, marks, Records, InFiles
<1> QED BY <1>1, StoreSteps, WriteStage, FlushStage, CompactStage, CrashStage

-----------------------------------------------------------------------------
(* Durability *)

(* What replay does not reach is marked. *)
LEMMA ReplayReaches ==
    ASSUME StoreTypes, Hidden
    PROVE  Replayed \subseteq Records /\ Records \subseteq Replayed \cup behind
<1>1. Replayed \subseteq Records
    BY DEF Replayed, Records
<1>2. ASSUME NEW v \in Records, v \notin behind PROVE v \in Replayed
    <2>1. PICK i \in DOMAIN wal : v \in wal[i].recs
        BY DEF Records
    <2>2. ASSUME NEW h \in 1..(i - 1), wal[h].torn PROVE FALSE
        <3>1. h \in DOMAIN wal /\ h < i
            BY <2>1 DEF StoreTypes
        <3> QED BY <1>2, <2>1, <2>2, <3>1 DEF Hidden
    <2> QED BY <2>1, <2>2 DEF Replayed
<1> QED BY <1>1, <1>2

(* What an append does to the log. *)
LEMMA LogContents ==
    ASSUME StoreTypes, NEW v \in Versions, wal' = LogWith(v)
    PROVE  /\ DOMAIN wal' = DOMAIN wal
           /\ \A i \in DOMAIN wal :
                 /\ wal'[i].torn = wal[i].torn
                 /\ wal'[i].recs \subseteq wal[i].recs \cup {v}
                 /\ i # Len(wal) => wal'[i] = wal[i]
           /\ ~Torn => v \in Records'
<1>1. wal \in Seq(Segments) /\ wal # <<>> /\ \A i \in DOMAIN wal : wal[i] \in Segments
    <2>1. wal \in Seq(Segments) /\ wal # <<>>
        BY DEF StoreTypes, Segments
    <2> QED BY <2>1
<1>2. DOMAIN wal' = DOMAIN wal /\ Len(wal) \in DOMAIN wal
      /\ \A i \in DOMAIN wal :
            wal'[i] = IF i = Len(wal) THEN Appended(wal[i], v) ELSE wal[i]
    BY LogTypes
<1>3. \A i \in DOMAIN wal :
         /\ Appended(wal[i], v).torn = wal[i].torn
         /\ Appended(wal[i], v).recs = IF wal[i].torn THEN wal[i].recs ELSE wal[i].recs \cup {v}
    BY <1>1, AppendedTypes
<1>4. ASSUME ~Torn PROVE v \in Records'
    <2>1. v \in wal'[Len(wal)].recs
        BY <1>2, <1>3, <1>4 DEF Torn
    <2> QED BY <1>2, <2>1 DEF Records
<1> QED BY <1>2, <1>3, <1>4

(* A new segment holds no record, and the others stay. *)
LEMMA Rotated ==
    ASSUME StoreTypes, wal' = Append(wal, EmptySegment)
    PROVE  /\ Records' = Records
           /\ \A i \in DOMAIN wal' : IF i \in DOMAIN wal THEN wal'[i] = wal[i]
                                     ELSE wal'[i].recs = {}
           /\ \A i, j \in DOMAIN wal' : i < j => i \in DOMAIN wal
<1>1. wal \in Seq(Segments) /\ EmptySegment \in Segments
    BY DEF StoreTypes, Segments, EmptySegment
<1>2. /\ DOMAIN wal \subseteq DOMAIN wal'
      /\ \A i \in DOMAIN wal' : IF i \in DOMAIN wal THEN wal'[i] = wal[i]
                                ELSE wal'[i] = EmptySegment
    BY <1>1
<1>3. EmptySegment.recs = {}
    BY DEF EmptySegment
<1>4. \A i, j \in DOMAIN wal' : i < j => i \in DOMAIN wal
    BY <1>1
<1> QED BY <1>2, <1>3, <1>4 DEF Records

(* Dying inside append takes no record out of the log. *)
LEMMA TearingKeeps ==
    ASSUME wal \in Seq(Segments), wal # <<>>, NEW part \in BOOLEAN,
           wal' = [wal EXCEPT ![Len(wal)].torn = @ \/ part]
    PROVE  /\ DOMAIN wal' = DOMAIN wal
           /\ \A i \in DOMAIN wal :
                 /\ wal'[i].recs = wal[i].recs
                 /\ i # Len(wal) => wal'[i] = wal[i]
<1>1. \A i \in DOMAIN wal : wal[i] \in Segments
    OBVIOUS
<1>2. DOMAIN wal' = DOMAIN wal
      /\ \A i \in DOMAIN wal : wal'[i] = IF i = Len(wal) THEN [wal[i] EXCEPT !.torn = @ \/ part]
                                         ELSE wal[i]
    OBVIOUS
<1>3. \A s \in Segments : /\ [s EXCEPT !.torn = @ \/ part].recs = s.recs
                          /\ [s EXCEPT !.torn = @ \/ part].torn = (s.torn \/ part)
    BY DEF Segments
<1> SUFFICES ASSUME NEW i \in DOMAIN wal
             PROVE  wal'[i].recs = wal[i].recs /\ (i # Len(wal) => wal'[i] = wal[i])
    BY <1>2
<1> DEFINE last == [wal[i] EXCEPT !.torn = @ \/ part]
<1>5. CASE i = Len(wal)
    <2>1. wal'[i] = last
        BY <1>2, <1>5, Zenon
    <2>2. wal[i] \in Segments
        BY <1>1
    <2>3. last.recs = wal[i].recs /\ last.torn = (wal[i].torn \/ part)
        BY <1>3, <2>2, Zenon
    <2> HIDE DEF last
    <2> QED BY <2>1, <2>3
<1>6. CASE i # Len(wal)
    BY <1>2, <1>6
<1> QED BY <1>5, <1>6

LEMMA DurableInit == StoreInit => DurableInv
<1> SUFFICES ASSUME StoreInit PROVE DurableInv
    OBVIOUS
<1>1. EmptySegment.recs = {} /\ DOMAIN wal = {1} /\ wal[1] = EmptySegment
    BY DEF StoreInit, EmptySegment
<1>2. Records = {}
    BY <1>1 DEF Records
<1>3. Hidden
    BY <1>1 DEF Hidden, StoreInit
<1> QED BY <1>2, <1>3 DEF StoreInit, DurableInv

(* What compaction drops is below its watermark. *)
LEMMA KeptCovers ==
    ASSUME NEW vs \in SUBSET Versions, NEW w \in Nat
    PROVE  \A v \in vs : v \in Kept(vs, w) \/ v.ts < w
<1>1. \A v \in vs : v.ts \in Nat
    BY DEF Versions
<1> QED BY <1>1 DEF Kept

(* Every step leaves marked what is behind a torn record. *)
LEMMA HiddenNext ==
    ASSUME StageInv, Hidden, [StoreNext]_storeVars
    PROVE  Hidden'
<1>0. StoreTypes /\ Stages /\ wal \in Seq(Segments) /\ wal # <<>>
    BY DEF StageInv, StoreTypes, Segments
<1>1. CASE Write
    <2>1. PICK v \in Versions : Log(v)
        BY <1>0, <1>1, WriteLogs
    <2>2. /\ wal' = LogWith(v) /\ behind' = IF Torn THEN behind \cup {v} ELSE behind
          /\ disordered \subseteq disordered' /\ (Torn => v.key \in disordered')
        BY <2>1 DEF Log
    <2>3. /\ DOMAIN wal' = DOMAIN wal
          /\ \A i \in DOMAIN wal : /\ wal'[i].torn = wal[i].torn
                                   /\ wal'[i].recs \subseteq wal[i].recs \cup {v}
        BY <1>0, <2>2, LogContents
    <2>4. ASSUME NEW i \in DOMAIN wal', NEW j \in DOMAIN wal', i < j, wal'[i].torn
          PROVE  wal'[j].recs \subseteq behind'
        <3>1. wal[i].torn /\ i \in DOMAIN wal /\ j \in DOMAIN wal
            BY <2>3, <2>4
        <3>2. Torn
            BY <3>1 DEF Torn
        <3> QED BY <2>2, <2>3, <2>4, <3>1, <3>2 DEF Hidden
    <2>5. \A u \in behind' : u.key \in disordered'
        BY <2>2 DEF Hidden
    <2> QED BY <2>4, <2>5 DEF Hidden
<1>2. CASE \/ Insert \/ WriteTable \/ InsertTable \/ ClearMemtable \/ Merge \/ SwapTables
           \/ UnlinkTable \/ Crash \/ Restart
           \/ UNCHANGED <<diskVars, seq, tables, doomed, mem, pc, inflight, timeVars>>
    <2>1. UNCHANGED <<wal, behind, disordered>>
        BY <1>2 DEF Insert, WriteTable, InsertTable, ClearMemtable, Merge, SwapTables,
                    UnlinkTable, Crash, Restart, ProcessDies, diskVars, timeVars, marks
    <2> QED BY <2>1 DEF Hidden
<1>3. CASE Rotate
    <2>1. wal' = Append(wal, EmptySegment) /\ UNCHANGED <<behind, disordered>>
        BY <1>3 DEF Rotate, timeVars, marks
    <2>2. /\ \A i \in DOMAIN wal' : IF i \in DOMAIN wal THEN wal'[i] = wal[i]
                                    ELSE wal'[i].recs = {}
          /\ \A i, j \in DOMAIN wal' : i < j => i \in DOMAIN wal
        BY <1>0, <2>1, Rotated
    <2>3. ASSUME NEW i \in DOMAIN wal', NEW j \in DOMAIN wal', i < j, wal'[i].torn
          PROVE  wal'[j].recs \subseteq behind'
        <3>1. i \in DOMAIN wal /\ wal[i].torn
            BY <2>2, <2>3
        <3> QED BY <2>1, <2>2, <2>3, <3>1 DEF Hidden
    <2> QED BY <2>1, <2>3 DEF Hidden
<1>4. CASE DropSegment
    <2>1. /\ wal' = Tail(wal) /\ Len(wal) > 1 /\ disordered' = disordered
          /\ behind' = IF Len(wal) = 2 THEN behind \ file[seq] ELSE behind
        BY <1>0, <1>4 DEF DropSegment, Stages
    <2>2. \A i \in DOMAIN wal' : i + 1 \in DOMAIN wal /\ wal'[i] = wal[i + 1] /\ i \in Nat
        BY <1>0, <2>1
    <2>3. ASSUME NEW i \in DOMAIN wal', NEW j \in DOMAIN wal', i < j, wal'[i].torn
          PROVE  wal'[j].recs \subseteq behind'
        <3>1. Len(wal) # 2
            BY <1>0, <2>1, <2>3
        <3>2. i + 1 < j + 1
            BY <2>2, <2>3
        <3> QED BY <2>1, <2>2, <2>3, <3>1, <3>2 DEF Hidden
    <2> QED BY <2>1, <2>3 DEF Hidden
<1>5. CASE CrashInAppend
    <2>1. PICK part \in BOOLEAN : wal' = [wal EXCEPT ![Len(wal)].torn = @ \/ part]
        BY <1>5 DEF CrashInAppend
    <2>2. /\ DOMAIN wal' = DOMAIN wal
          /\ \A i \in DOMAIN wal : wal'[i].recs = wal[i].recs /\ (i # Len(wal) => wal'[i] = wal[i])
        BY <1>0, <2>1, TearingKeeps
    <2>3. UNCHANGED <<behind, disordered>>
        BY <1>5 DEF CrashInAppend, ProcessDies
    <2>4. ASSUME NEW i \in DOMAIN wal', NEW j \in DOMAIN wal', i < j, wal'[i].torn
          PROVE  wal'[j].recs \subseteq behind'
        <3>1. i # Len(wal)
            BY <1>0, <2>2, <2>4
        <3> QED BY <2>2, <2>3, <2>4, <3>1 DEF Hidden
    <2> QED BY <2>3, <2>4 DEF Hidden
<1> QED BY <1>1, <1>2, <1>3, <1>4, <1>5, StoreSteps

LEMMA DurableNext ==
    ASSUME StageInv, DurableInv, [StoreNext]_storeVars
    PROVE  DurableInv'
<1>0. /\ StoreTypes /\ Stages /\ Hidden /\ Hidden'
      /\ MaxSeq \in Nat /\ MaxTs \in Nat
    BY StoreBoundsAssumption, HiddenNext DEF StageInv, DurableInv
<1>1. CASE Write
    <2>1. PICK v \in Versions : Log(v)
        BY <1>0, <1>1, WriteLogs
    <2>2. Records \subseteq Records' /\ Records' \subseteq Records \cup {v}
          /\ (~Torn => v \in Records')
        BY <1>0, <2>1, LogContents, RecordsOfLog DEF Log
    <2>3. inflight = {} /\ pc = "idle" /\ pc' = "logged" /\ inflight' = {v}
          /\ behind' = (IF Torn THEN behind \cup {v} ELSE behind)
          /\ UNCHANGED <<OnDisk, Below, mem, acked>>
        BY <1>0, <2>1 DEF Log, Stages, OnDisk, Below, tableVars
    <2> QED BY <1>0, <2>2, <2>3 DEF DurableInv
<1>2. CASE Insert
    <2> QED BY <1>0, <1>2 DEF Insert, DurableInv, OnDisk, Below, Records, tableVars, diskVars,
                              marks
<1>3. CASE WriteTable
    <2>1. seq + 1 \in Seqs /\ seq + 1 \notin disk /\ disk \subseteq Seqs
        BY <1>0, <1>3 DEF WriteTable, StoreTypes, Stages, Seqs
    <2>2. /\ file' = [file EXCEPT ![seq + 1] = mem] /\ disk' = disk \cup {seq + 1}
          /\ pc' = "written" /\ pc = "idle"
          /\ UNCHANGED <<wal, tables, refs, doomed, mem, inflight, timeVars>>
        BY <1>3 DEF WriteTable
    <2>3. OnDisk' = OnDisk \cup mem
        BY <1>0, <2>1, <2>2 DEF OnDisk, StoreTypes
    <2> QED BY <1>0, <2>2, <2>3 DEF DurableInv, Below, Records, timeVars, marks
<1>4. CASE InsertTable
    BY <1>0, <1>4 DEF InsertTable, DurableInv, OnDisk, Below, Records, timeVars, marks, diskVars
<1>5. CASE ClearMemtable
    <2>1. seq \in disk /\ file[seq] = mem /\ inflight = {}
        BY <1>0, <1>5 DEF ClearMemtable, Stages
    <2>2. mem \subseteq OnDisk
        BY <2>1 DEF OnDisk
    <2> QED BY <1>0, <1>5, <2>2 DEF ClearMemtable, DurableInv, OnDisk, Below, Records, timeVars, marks,
                              diskVars, tableVars
<1>6. CASE Rotate
    <2>1. Records' = Records
        BY <1>0, <1>6, Rotated DEF Rotate
    <2> QED BY <1>0, <1>6, <2>1 DEF Rotate, DurableInv, OnDisk, Below, timeVars, marks, tableVars
<1>7. CASE DropSegment
    <2>1. mem = {} /\ inflight = {} /\ Len(wal) > 1 /\ pc = "rotated" /\ pc' \in {"idle", "rotated"}
          /\ seq \in disk
        BY <1>0, <1>7 DEF DropSegment, Stages
    <2>2. Records' \subseteq Records
        BY <1>0, <1>7, <2>1, RecordsOfRest DEF DropSegment
    <2>3. /\ UNCHANGED <<OnDisk, Below, acked, inflight, mem>>
          /\ behind \subseteq behind' \cup file[seq]
        BY <1>7 DEF DropSegment, OnDisk, Below, tableVars
    <2>4. file[seq] \subseteq OnDisk
        BY <2>1 DEF OnDisk
    <2> QED BY <1>0, <2>1, <2>2, <2>3, <2>4 DEF DurableInv
<1>8. CASE Merge
    <2>1. /\ seq + 1 \in Seqs /\ seq + 1 \notin disk /\ disk \subseteq Seqs /\ disk = tables
          /\ seq \in Nat
        BY <1>0, <1>8 DEF Merge, StoreTypes, Stages, Seqs
    <2>2. PICK w \in watermark..(clock + 1) :
              watermark' = w /\ file' = [file EXCEPT ![seq + 1] = Kept(OnTables, w)]
        BY <1>8 DEF Merge
    <2>3. /\ disk' = disk \cup {seq + 1} /\ seq' = seq + 1 /\ pc = "idle" /\ pc' = "merged"
          /\ UNCHANGED <<wal, tables, refs, doomed, mem, inflight, clock, acked, crashes,
                         behind, disordered, exposed>>
        BY <1>8 DEF Merge, marks
    <2>4. w \in Nat /\ watermark <= w /\ watermark \in Nat
        BY <1>0, <2>2 DEF StoreTypes
    <2>5. Below \subseteq Below'
        <3>1. \A v \in Versions : v.ts \in Nat
            BY DEF Versions
        <3> QED BY <2>2, <2>4, <3>1 DEF Below
    <2>6. /\ \A s \in disk : file'[s] = file[s]
          /\ file'[seq + 1] = Kept(OnTables, w)
        BY <1>0, <2>1, <2>2 DEF StoreTypes
    <2>7. OnDisk \subseteq OnDisk'
        BY <2>3, <2>6 DEF OnDisk
    <2>8. \A s \in disk' : file'[s] \subseteq file'[seq'] \cup Below'
        <3>1. OnTables \in SUBSET Versions
            BY <1>0, VersionsTyped
        <3>2. \A v \in OnTables : v \in Kept(OnTables, w) \/ v \in Below'
            BY <2>2, <2>4, <3>1, KeptCovers DEF Below
        <3>3. \A s \in disk : file[s] \subseteq OnTables
            BY <2>1 DEF OnTables
        <3> QED BY <2>3, <2>6, <3>2, <3>3
    <2>9. UNCHANGED <<Records, mem, inflight, acked, behind>>
        BY <2>3 DEF Records
    <2> QED BY <1>0, <2>3, <2>5, <2>7, <2>8, <2>9 DEF DurableInv
<1>9. CASE SwapTables
    BY <1>0, <1>9 DEF SwapTables, DurableInv, OnDisk, Below, Records, timeVars, marks, diskVars
<1>10. CASE UnlinkTable
    <2>1. pc = "unlinking" /\ doomed # {} /\ disk = {seq} \cup doomed /\ doomed \subseteq 1..(seq - 1)
        BY <1>0, <1>10 DEF UnlinkTable, Stages
    <2>2. PICK s \in doomed :
              /\ disk' = disk \ {s} /\ doomed' = doomed \ {s} /\ pc' \in {"idle", "unlinking"}
              /\ UNCHANGED <<wal, file, seq, tables, mem, inflight, timeVars>>
        BY <1>0, <1>10, <2>1, NextDoomed DEF UnlinkTable
    <2>3. seq \in disk' /\ disk' \subseteq disk
        BY <1>0, <2>1, <2>2 DEF StoreTypes
    <2>4. UNCHANGED <<Records, Below, mem, inflight, acked, behind>>
        BY <2>2 DEF Records, Below, timeVars, marks
    <2>5. OnDisk \subseteq OnDisk' \cup Below
        <3>1. \A u \in disk : file[u] \subseteq file[seq] \cup Below
            BY <2>1 DEF DurableInv
        <3>2. file[seq] \subseteq OnDisk'
            BY <2>2, <2>3 DEF OnDisk
        <3> QED BY <3>1, <3>2 DEF OnDisk
    <2> QED BY <1>0, <2>1, <2>2, <2>3, <2>4, <2>5 DEF DurableInv
<1>11. CASE Crash
    BY <1>0, <1>11 DEF Crash, ProcessDies, DurableInv, OnDisk, Below, Records
<1>12. CASE CrashInAppend
    <2>1. Records' = Records
        <3>1. PICK part \in BOOLEAN : wal' = [wal EXCEPT ![Len(wal)].torn = @ \/ part]
            BY <1>12 DEF CrashInAppend
        <3>2. wal \in Seq(Segments) /\ wal # <<>>
            BY <1>0 DEF StoreTypes, Segments
        <3>3. DOMAIN wal' = DOMAIN wal /\ \A i \in DOMAIN wal : wal'[i].recs = wal[i].recs
            BY <3>1, <3>2, TearingKeeps
        <3> QED BY <3>3 DEF Records
    <2> QED BY <1>0, <1>12, <2>1 DEF CrashInAppend, ProcessDies, DurableInv, OnDisk, Below
<1>13. CASE Restart
    <2>1. Replayed \subseteq Records /\ Records \subseteq Replayed \cup behind
        BY <1>0, ReplayReaches
    <2> QED BY <1>0, <1>13, <2>1 DEF Restart, DurableInv, OnDisk, Below, Records, diskVars, marks
<1>14. CASE UNCHANGED <<diskVars, seq, tables, doomed, mem, pc, inflight, timeVars>>
    BY <1>0, <1>14 DEF DurableInv, OnDisk, Below, Records, diskVars, timeVars, marks
<1> QED BY <1>1, <1>2, <1>3, <1>4, <1>5, <1>6, <1>7, <1>8, <1>9, <1>10, <1>11, <1>12, <1>13,
           <1>14, StoreSteps

(* Every write that returned survives any number of crashes, in the log or in a
   linked table, until a compaction may drop it (put, flush, compact, __init__),
   but for those whose record _open_wal let be appended behind a torn one and
   that no flush has saved since.  The process may die anywhere, also inside an
   append and while old tables are unlinked, and timestamps come in any order. *)
THEOREM DurableHolds == StoreSpec => []Durable
<1> DEFINE I == StageInv /\ DurableInv
<1>1. StoreInit => I
    BY StageInit, DurableInit
<1>2. I /\ [StoreNext]_storeVars => I'
    BY StageNext, DurableNext
<1>3. I => Durable
    <2> SUFFICES ASSUME I PROVE Durable
        OBVIOUS
    <2>1. Records \subseteq Replayed \cup behind
        BY ReplayReaches DEF StageInv, DurableInv
    <2> QED BY <2>1 DEF DurableInv, Durable, Stored, OnDisk, Below
<1> QED BY <1>1, <1>2, <1>3, PTL DEF StoreSpec

-----------------------------------------------------------------------------
(* Reference counts *)

LEMMA UsersFinite ==
    ASSUME IsFiniteSet(Getters)
    PROVE  \A s : IsFiniteSet(Users(s)) /\ Cardinality(Users(s)) \in Nat
<1>1. \A s : Users(s) \in SUBSET Getters
    BY DEF Users
<1> QED BY <1>1, FS_Subset, FS_CardinalityType

LEMMA ListedAreListable ==
    ASSUME StageInv
    PROVE  tables \subseteq Listable /\ Listable \subseteq Seqs /\ doomed \subseteq Listable
<1>1. StoreTypes /\ Stages /\ MaxSeq \in Nat
    BY StoreBoundsAssumption DEF StageInv
<1>2. seq \in 0..MaxSeq
    BY <1>1 DEF StoreTypes
<1>3. Listable \subseteq Seqs
    BY <1>1, <1>2 DEF Listable, Seqs
<1>4. tables \subseteq Listable
    BY <1>1, <1>2 DEF Stages, Listable, StoreTypes
<1>5. doomed \subseteq Listable
    BY <1>1, <1>2 DEF Stages, Listable
<1> QED BY <1>3, <1>4, <1>5

LEMMA AnswerTyped ==
    ASSUME StageInv, NEW vs \in SUBSET Versions, \A v \in vs : v.ts <= clock
    PROVE  Answer(vs) \in 0..MaxTs
<1>1. clock \in 0..MaxTs /\ MaxTs \in Nat
    BY StoreBoundsAssumption DEF StageInv, StoreTypes
<1>2. CASE vs = {}
    BY <1>1, <1>2 DEF Answer
<1>3. CASE vs # {}
    <2>1. NewestOf(vs) \in vs
        BY <1>1, <1>3, NewestExists
    <2>2. NewestOf(vs).ts \in 0..MaxTs
        BY <1>1, <2>1 DEF Versions
    <2> QED BY <1>1, <2>2 DEF Answer
<1> QED BY <1>2, <1>3

(* A step that moves no get and lists the same tables keeps the counts. *)
LEMMA RefsUntouched ==
    ASSUME RefInv, UNCHANGED <<refs, getter>>, Listable \subseteq Listable',
           (tables \cup doomed)' = tables \cup doomed
    PROVE  RefInv'
<1>1. \A s : Users(s)' = Users(s)
    BY DEF Users
<1>2. Counted'
    BY <1>1 DEF RefInv, Counted
<1> QED BY <1>2 DEF RefInv

LEMMA RefInit ==
    ASSUME Keys # {}, IsFiniteSet(Getters), StoreInit
    PROVE  RefInv
<1>1. MaxSeq \in Nat /\ MaxTs \in Nat
    BY StoreBoundsAssumption
<1>2. IdleGet \in Gets /\ IdleGet.using = 0 /\ IdleGet.todo = {} /\ IdleGet.at = "idle"
    BY <1>1 DEF IdleGet, Gets
<1>3. \A s \in Seqs : Users(s) = {}
    BY <1>1, <1>2 DEF StoreInit, Seqs, Users
<1>4. Counted
    BY <1>3, FS_EmptySet DEF StoreInit, Counted
<1> QED BY <1>1, <1>2, <1>4 DEF StoreInit, RefInv

LEMMA RefNext ==
    ASSUME Keys # {}, IsFiniteSet(Getters), StageInv, RefInv, [StoreNext]_storeVars
    PROVE  RefInv'
<1>0. /\ StoreTypes /\ Stages /\ seq \in Nat /\ MaxSeq \in Nat /\ MaxTs \in Nat
      /\ getter \in [Getters -> Gets] /\ refs \in [Seqs -> Nat]
    BY StoreBoundsAssumption DEF StageInv, RefInv, StoreTypes
<1>idle. IdleGet \in Gets /\ IdleGet.using = 0 /\ IdleGet.todo = {} /\ IdleGet.at = "idle"
    BY <1>0 DEF IdleGet, Gets
<1>1. CASE Write
    BY <1>1, RefsUntouched DEF Write, Log, Listable, tableVars
<1>2. CASE Insert \/ ClearMemtable \/ Rotate \/ DropSegment
    BY <1>2, RefsUntouched DEF Insert, ClearMemtable, Rotate, DropSegment, Listable, tableVars
<1>3. CASE WriteTable
    <2>1. pc = "idle" /\ pc' \in {"written", "merged"} /\ seq' = seq + 1
          /\ UNCHANGED <<refs, getter, tables, doomed>>
        BY <1>3 DEF WriteTable
    <2>2. Listable = 1..seq /\ Listable' = 1..(seq' - 1)
        BY <2>1 DEF Listable
    <2>3. Listable' = Listable
        BY <1>0, <2>1, <2>2
    <2> QED BY <2>1, <2>3, RefsUntouched
<1>4. CASE Merge
    <2>1. pc = "idle" /\ pc' \in {"written", "merged"} /\ seq' = seq + 1
          /\ UNCHANGED <<refs, getter, tables, doomed>>
        BY <1>4 DEF Merge
    <2>2. Listable = 1..seq /\ Listable' = 1..(seq' - 1)
        BY <2>1 DEF Listable
    <2>3. Listable' = Listable
        BY <1>0, <2>1, <2>2
    <2> QED BY <2>1, <2>3, RefsUntouched
<1>5. CASE InsertTable \/ SwapTables
    <2>1. /\ pc \in {"written", "merged"} /\ pc' \in {"inserted", "unlinking"}
          /\ refs' = [refs EXCEPT ![seq] = 1] /\ UNCHANGED <<seq, getter>>
          /\ (tables \cup doomed)' = (tables \cup doomed) \cup {seq}
        BY <1>0, <1>5 DEF InsertTable, SwapTables, Stages
    <2>2. seq \in Seqs /\ seq \notin tables \cup doomed /\ doomed = {}
        BY <1>0, <2>1 DEF Stages, StoreTypes, Seqs
    <2>3. Listable = 1..(seq - 1) /\ Listable' = 1..seq
        BY <2>1 DEF Listable
    <2>4. Users(seq) = {} /\ \A s : Users(s)' = Users(s)
        BY <1>0, <2>1, <2>2, <2>3 DEF RefInv, Seqs, Users
    <2>5. Counted'
        <3> SUFFICES ASSUME NEW s \in Seqs
                     PROVE  refs'[s] = Cardinality(Users(s)')
                                       + IF s \in (tables \cup doomed)' THEN 1 ELSE 0
            BY DEF Counted
        <3>1. CASE s = seq
            <4>1. Users(s)' = {}
                BY <2>4, <3>1
            <4>2. Cardinality(Users(s)') = 0
                BY <4>1, FS_EmptySet
            <4>3. refs'[s] = 1 /\ s \in (tables \cup doomed)'
                BY <1>0, <2>1, <2>2, <3>1
            <4> QED BY <4>2, <4>3
        <3>2. CASE s # seq
            BY <1>0, <2>1, <2>2, <2>4, <3>2 DEF RefInv, Counted
        <3> QED BY <3>1, <3>2
    <2>6. Listable \subseteq Listable'
        BY <1>0, <2>3
    <2> QED BY <1>0, <2>1, <2>5, <2>6 DEF RefInv
<1>6. CASE UnlinkTable
    <2>1. pc = "unlinking" /\ doomed # {} /\ tables = {seq} /\ doomed \subseteq 1..(seq - 1)
        BY <1>0, <1>6 DEF UnlinkTable, Stages
    <2>2. PICK s \in doomed :
              /\ refs' = [refs EXCEPT ![s] = @ - 1] /\ doomed' = doomed \ {s}
              /\ pc' \in {"idle", "unlinking"} /\ UNCHANGED <<seq, tables, getter>>
        BY <1>0, <1>6, <2>1, NextDoomed DEF UnlinkTable
    <2>3. s \in Seqs /\ s \notin tables
        BY <1>0, <2>1, <2>2 DEF StoreTypes
    <2>4. \A u : Users(u)' = Users(u) /\ Cardinality(Users(u)) \in Nat
        BY <2>2, UsersFinite DEF Users
    <2>5. refs[s] = Cardinality(Users(s)) + 1
        BY <2>2, <2>3 DEF RefInv, Counted
    <2>8. refs' \in [Seqs -> Nat] /\ refs'[s] = Cardinality(Users(s))
        <3>1. refs[s] - 1 = Cardinality(Users(s))
            BY <2>4, <2>5
        <3> QED BY <1>0, <2>2, <2>3, <2>4, <3>1
    <2>6. Counted'
        <3> SUFFICES ASSUME NEW u \in Seqs
                     PROVE  refs'[u] = Cardinality(Users(u)')
                                       + IF u \in (tables \cup doomed)' THEN 1 ELSE 0
            BY DEF Counted
        <3>1. CASE u = s
            BY <2>2, <2>3, <2>4, <2>8, <3>1
        <3>2. CASE u # s
            BY <1>0, <2>2, <2>3, <2>4, <3>2 DEF RefInv, Counted
        <3> QED BY <3>1, <3>2
    <2>7. Listable' = Listable
        BY <2>1, <2>2 DEF Listable
    <2> QED BY <1>0, <2>2, <2>8, <2>6, <2>7 DEF RefInv
<1>7. CASE Crash \/ CrashInAppend
    <2>1. /\ refs' = [s \in Seqs |-> 0] /\ getter' = [g \in Getters |-> IdleGet]
          /\ tables' = {} /\ doomed' = {}
        BY <1>7 DEF Crash, CrashInAppend, ProcessDies
    <2>2. \A s \in Seqs : Users(s)' = {}
        BY <1>0, <1>idle, <2>1 DEF Seqs, Users
    <2>3. Counted'
        BY <2>1, <2>2, FS_EmptySet DEF Counted
    <2> QED BY <1>0, <1>idle, <2>1, <2>3 DEF RefInv
<1>8. CASE Restart
    <2>1. /\ pc = "down" /\ pc' = "idle" /\ tables' = disk /\ UNCHANGED <<disk, doomed, getter>>
          /\ refs' = [s \in Seqs |-> IF s \in disk THEN 1 ELSE 0]
        BY <1>8 DEF Restart, diskVars
    <2>2. Listable = {} /\ doomed = {}
        BY <1>0, <2>1 DEF Stages, Listable
    <2>3. \A g \in Getters : getter[g].using = 0 /\ getter[g].todo = {} /\ getter[g].at # "reading"
        BY <2>2 DEF RefInv
    <2>4. \A s \in Seqs : Users(s)' = {}
        BY <1>0, <2>1, <2>3 DEF Seqs, Users
    <2>5. Counted'
        BY <2>1, <2>2, <2>4, FS_EmptySet DEF Counted
    <2> QED BY <1>0, <2>1, <2>3, <2>5 DEF RefInv
<1>9. ASSUME NEW g \in Getters, NEW k \in Keys, CallGet(g, k)
      PROVE  RefInv'
    <2> DEFINE t == Max({v.ts : v \in acked} \cup {0})
               at == IF Hits(mem, k, t) = {} THEN "listing" ELSE "done"
               got == [IdleGet EXCEPT !.key = k, !.ts = t, !.at = at, !.answer = Answer(Hits(mem, k, t))]
    <2>1. getter' = [getter EXCEPT ![g] = got] /\ getter[g].at = "idle"
          /\ UNCHANGED <<refs, tables, doomed, pc, seq>>
        BY <1>9 DEF CallGet, tableVars
    <2>2. t \in 0..MaxTs
        <3>1. acked \subseteq Versions /\ clock \in 0..MaxTs /\ \A v \in acked : v.ts <= clock
            BY <1>0 DEF StoreTypes
        <3>2. {v.ts : v \in acked} \cup {0} \in SUBSET (0..MaxTs)
            BY <1>0, <3>1 DEF Versions
        <3> QED BY <1>0, <3>2, Greatest
    <2>3. Answer(Hits(mem, k, t)) \in 0..MaxTs
        <3>1. Hits(mem, k, t) \in SUBSET Versions /\ \A v \in Hits(mem, k, t) : v.ts <= clock
            BY <1>0 DEF StoreTypes, Hits
        <3> QED BY <3>1, AnswerTyped
    <2>4. at \in {"listing", "done"}
        OBVIOUS
    <2> HIDE DEF t, at
    <2>5. got \in Gets /\ got.using = 0 /\ got.todo = {} /\ got.at # "reading"
        BY <1>idle, <2>2, <2>3, <2>4 DEF Gets
    <2> HIDE DEF got
    <2>6. getter[g].using = 0
        BY <2>1 DEF RefInv
    <2>7. getter' \in [Getters -> Gets] /\ \A h \in Getters : getter'[h].using = getter[h].using
        BY <1>0, <2>1, <2>5, <2>6
    <2>8. Counted'
        <3>1. \A u : Users(u)' = Users(u)
            BY <2>7 DEF Users
        <3> QED BY <2>1, <3>1 DEF RefInv, Counted
    <2>9. Listable' = Listable
        BY <2>1 DEF Listable
    <2> QED BY <1>0, <2>1, <2>5, <2>7, <2>8, <2>9 DEF RefInv
<1>10. ASSUME NEW g \in Getters, ListTables(g) \/ NothingFound(g) PROVE RefInv'
    <2>1. PICK todo \in {tables, getter[g].todo}, at \in {"tables", "done"} :
              getter' = [getter EXCEPT ![g] = [@ EXCEPT !.at = at, !.todo = todo]]
        <3>1. CASE ListTables(g)
            BY <1>0, <3>1 DEF ListTables
        <3>2. CASE NothingFound(g)
            BY <1>0, <3>2 DEF NothingFound, Gets
        <3> QED BY <1>10, <3>1, <3>2
    <2>2. getter[g].at # "reading" /\ UNCHANGED <<refs, tables, doomed, pc, seq>>
        BY <1>10 DEF ListTables, NothingFound, tableVars
    <2>3. todo \subseteq Listable /\ todo \in SUBSET Seqs /\ Listable' = Listable
        BY <2>2, ListedAreListable DEF RefInv, Listable
    <2>4. /\ getter' \in [Getters -> Gets]
          /\ \A h \in Getters : getter'[h].using = getter[h].using
          /\ \A h \in Getters : h # g => getter'[h] = getter[h]
          /\ getter'[g].todo = todo /\ getter'[g].at = at
        BY <1>0, <2>1, <2>3 DEF Gets
    <2>5. Counted'
        <3>1. \A u : Users(u)' = Users(u)
            BY <2>4 DEF Users
        <3> QED BY <2>2, <3>1 DEF RefInv, Counted
    <2> QED BY <1>0, <2>2, <2>3, <2>4, <2>5 DEF RefInv
<1>11. ASSUME NEW g \in Getters, Acquire(g) PROVE RefInv'
    <2> DEFINE s == Max(getter[g].todo)
    <2>1. s \in getter[g].todo /\ s \in Seqs /\ s \in Listable
        <3>1. getter[g].todo \in SUBSET (0..MaxSeq) /\ getter[g].todo # {}
            BY <1>0, <1>11 DEF Acquire, Gets, Seqs
        <3>2. s \in getter[g].todo
            BY <1>0, <3>1, Greatest
        <3> QED BY <3>2, ListedAreListable DEF RefInv
    <2>2. /\ getter[g].at = "tables" /\ getter[g].using = 0
          /\ UNCHANGED <<tables, doomed, pc, seq>>
        BY <1>11 DEF Acquire, RefInv
    <2>3. Listable' = Listable
        BY <2>2 DEF Listable
    <2>4. CASE refs[s] = 0
        <3>1. getter' = [getter EXCEPT ![g] = [@ EXCEPT !.at = "listing", !.todo = {}]] /\ refs' = refs
            BY <1>0, <1>11, <2>4 DEF Acquire
        <3>2. /\ getter' \in [Getters -> Gets]
              /\ \A h \in Getters : getter'[h].using = getter[h].using
              /\ \A h \in Getters : h # g => getter'[h] = getter[h]
              /\ getter'[g].todo = {} /\ getter'[g].at = "listing"
            BY <1>0, <3>1 DEF Gets
        <3>3. Counted'
            <4>1. \A u : Users(u)' = Users(u)
                BY <3>2 DEF Users
            <4> QED BY <2>2, <3>1, <4>1 DEF RefInv, Counted
        <3> QED BY <1>0, <2>2, <2>3, <3>1, <3>2, <3>3 DEF RefInv
    <2>5. CASE refs[s] # 0
        <3>1. /\ getter' = [getter EXCEPT ![g].at = "reading", ![g].using = s, ![g].todo = @ \ {s}]
              /\ refs' = [refs EXCEPT ![s] = @ + 1]
            BY <1>11, <2>5 DEF Acquire
        <3>2. s \in 0..MaxSeq /\ s # 0
            BY <1>0, <2>1 DEF Seqs
        <3>3. PICK u \in Seqs : u = s
            BY <2>1
        <3> HIDE DEF s
        <3>4. getter[g] \in Gets
            BY <1>0
        <3>5. getter' = [getter EXCEPT ![g] = [getter[g] EXCEPT !.at = "reading", !.using = s,
                                                                !.todo = getter[g].todo \ {s}]]
            BY <1>0, <3>1
        <3>6. /\ getter' \in [Getters -> Gets]
              /\ \A h \in Getters : h # g => getter'[h] = getter[h]
              /\ getter'[g].todo \subseteq getter[g].todo /\ getter'[g].at = "reading"
              /\ getter'[g].using = s
            <4> DEFINE got == [getter[g] EXCEPT !.at = "reading", !.using = s,
                                                !.todo = getter[g].todo \ {s}]
            <4>1. getter[g].todo \ {s} \in SUBSET Seqs
                BY <3>4 DEF Gets
            <4>2. got \in Gets /\ got.todo = getter[g].todo \ {s} /\ got.at = "reading" /\ got.using = s
                BY <3>4, <3>2, <4>1 DEF Gets
            <4>3. getter' = [getter EXCEPT ![g] = got]
                BY <3>5
            <4> HIDE DEF got
            <4> QED BY <1>0, <4>2, <4>3
        <3>7. /\ Users(u)' = Users(u) \cup {g} /\ g \notin Users(u)
              /\ \A w \in Seqs : w # u => Users(w)' = Users(w)
            <4>1. getter[g].using = 0 /\ getter'[g].using = u
                BY <2>2, <3>6, <3>3
            <4>2. \A w \in Seqs : Users(w)' = {h \in Getters : getter'[h].using = w} /\ w # 0
                BY DEF Users, Seqs
            <4> QED BY <3>6, <4>1, <4>2 DEF Users
        <3>8. Cardinality(Users(u)') = Cardinality(Users(u)) + 1 /\ Cardinality(Users(u)) \in Nat
            BY <3>7, UsersFinite, FS_AddElement
        <3>9. \A w \in Seqs : refs[w] = Cardinality(Users(w)) + IF w \in tables \cup doomed THEN 1 ELSE 0
            BY DEF RefInv, Counted
        <3>10. Counted'
            <4> SUFFICES ASSUME NEW w \in Seqs
                         PROVE  refs'[w] = Cardinality(Users(w)')
                                           + IF w \in (tables \cup doomed)' THEN 1 ELSE 0
                BY DEF Counted
            <4>1. CASE w = u
                BY <1>0, <2>2, <3>1, <3>8, <3>9, <3>3, <4>1
            <4>2. CASE w # u
                BY <1>0, <2>2, <3>1, <3>7, <3>9, <3>3, <4>2
            <4> QED BY <4>1, <4>2
        <3>11. refs' \in [Seqs -> Nat]
            BY <1>0, <3>1, <3>3
        <3> QED BY <1>0, <2>1, <2>2, <2>3, <3>2, <3>6, <3>10, <3>11 DEF RefInv
    <2> QED BY <2>4, <2>5
<1>12. ASSUME NEW g \in Getters, ReadTable(g) PROVE RefInv'
    <2> DEFINE s == getter[g].using
               hits == Hits(file[s], getter[g].key, getter[g].ts)
               at == IF hits = {} THEN "tables" ELSE "done"
    <2>1. /\ getter[g].at = "reading" /\ s # 0 /\ s \in Listable /\ s \in Seqs
          /\ UNCHANGED <<tables, doomed, pc, seq>>
        BY <1>12, ListedAreListable DEF ReadTable, RefInv
    <2>2. Listable' = Listable
        BY <2>1 DEF Listable
    <2>3. Answer(hits) \in 0..MaxTs
        <3>1. hits \in SUBSET Versions /\ hits \subseteq InFiles
            BY <1>0, <2>1 DEF Hits, StoreTypes, InFiles
        <3>2. \A v \in hits : v.ts <= clock
            BY <1>0, <3>1 DEF StoreTypes
        <3> QED BY <3>1, <3>2, AnswerTyped
    <2>4. at \in {"tables", "done"}
        OBVIOUS
    <2>5. /\ getter' = [getter EXCEPT ![g].using = 0, ![g].answer = Answer(hits), ![g].at = at]
          /\ refs' = [refs EXCEPT ![s] = @ - 1]
        BY <1>12 DEF ReadTable
    <2> HIDE DEF hits, at
    <2> DEFINE got == [getter[g] EXCEPT !.using = 0, !.answer = Answer(hits), !.at = at]
    <2>6. /\ getter' \in [Getters -> Gets]
          /\ \A h \in Getters : h # g => getter'[h] = getter[h]
          /\ getter'[g].todo = getter[g].todo /\ getter'[g].at # "reading"
          /\ getter'[g].using = 0
        <3>1. getter[g] \in Gets /\ 0 \in 0..MaxSeq
            BY <1>0
        <3>2. got \in Gets /\ got.todo = getter[g].todo /\ got.at = at /\ got.using = 0
            BY <2>3, <2>4, <3>1 DEF Gets
        <3>3. getter' = [getter EXCEPT ![g] = got]
            BY <1>0, <2>5
        <3> HIDE DEF got
        <3> QED BY <1>0, <2>4, <3>2, <3>3
    <2>13. PICK u \in Seqs : u = s
        BY <2>1
    <2> HIDE DEF s
    <2>7. /\ Users(u)' = Users(u) \ {g} /\ g \in Users(u)
          /\ \A w \in Seqs : w # u => Users(w)' = Users(w)
        <3>1. getter[g].using = u /\ u # 0
            BY <2>1, <2>13 DEF s
        <3>2. \A w \in Seqs : Users(w)' = {h \in Getters : getter'[h].using = w} /\ w # 0
            BY DEF Users, Seqs
        <3> QED BY <2>6, <3>1, <3>2 DEF Users
    <2>8. Cardinality(Users(u)') = Cardinality(Users(u)) - 1 /\ Cardinality(Users(u)) \in Nat
          /\ Cardinality(Users(u)') \in Nat
        BY <2>7, UsersFinite, FS_RemoveElement, FS_CardinalityType
    <2>9. \A w \in Seqs : refs[w] = Cardinality(Users(w)) + IF w \in tables \cup doomed THEN 1 ELSE 0
        BY DEF RefInv, Counted
    <2>10. refs' = [refs EXCEPT ![u] = @ - 1]
        BY <2>5, <2>13
    <2>11. Counted'
        <3> SUFFICES ASSUME NEW w \in Seqs
                     PROVE  refs'[w] = Cardinality(Users(w)')
                                       + IF w \in (tables \cup doomed)' THEN 1 ELSE 0
            BY DEF Counted
        <3>1. CASE w = u
            BY <1>0, <2>1, <2>8, <2>9, <2>10, <3>1
        <3>2. CASE w # u
            BY <1>0, <2>1, <2>7, <2>9, <2>10, <3>2
        <3> QED BY <3>1, <3>2
    <2>12. refs' \in [Seqs -> Nat]
        <3>1. refs[u] - 1 \in Nat
            BY <2>8, <2>9
        <3> QED BY <1>0, <2>10, <3>1
    <2> QED BY <1>0, <2>1, <2>2, <2>6, <2>11, <2>12 DEF RefInv
<1>13. CASE UNCHANGED storeVars
    BY <1>13, RefsUntouched DEF storeVars, tableVars, Listable
<1> QED BY <1>1, <1>2, <1>3, <1>4, <1>5, <1>6, <1>7, <1>8, <1>9, <1>10, <1>11, <1>12, <1>13
        DEF StoreNext

(* Every variable of the store keeps its type. *)
THEOREM StoreTypeCorrect ==
    ASSUME Keys # {}, IsFiniteSet(Getters)
    PROVE  StoreSpec => []StoreTypeOK
<1> DEFINE I == StageInv /\ RefInv
<1>1. StoreInit => I
    BY StageInit, RefInit
<1>2. I /\ [StoreNext]_storeVars => I'
    BY StageNext, RefNext
<1>3. I => StoreTypeOK
    BY DEF StageInv, StoreTypes, RefInv, StoreTypeOK, Gets
<1> QED BY <1>1, <1>2, <1>3, PTL DEF StoreSpec

(* SSTableReader.acquire and release: the count of a table is the gets that
   read it and one more while the store lists it or has still to close it, so
   a file is closed exactly when nobody needs it, whatever gets, flushes,
   compactions and crashes do. *)
THEOREM RefsExactHolds ==
    ASSUME Keys # {}, IsFiniteSet(Getters)
    PROVE  StoreSpec => []RefsExact
<1> DEFINE I == StageInv /\ RefInv
<1>1. StoreInit => I
    BY StageInit, RefInit
<1>2. I /\ [StoreNext]_storeVars => I'
    BY StageNext, RefNext
<1>3. I => RefsExact
    BY DEF RefInv, Counted, Users, RefsExact
<1> QED BY <1>1, <1>2, <1>3, PTL DEF StoreSpec

-----------------------------------------------------------------------------
(* The order of versions *)

LEMMA OrderInit == StoreInit => OrderInv
<1> SUFFICES ASSUME StoreInit PROVE OrderInv
    OBVIOUS
<1>1. DOMAIN wal = {1} /\ wal[1] = EmptySegment /\ EmptySegment.recs = {}
    BY DEF StoreInit, EmptySegment
<1>2. Records = {} /\ OnDisk = {}
    BY <1>1 DEF Records, OnDisk, StoreInit
<1> QED BY <1>1, <1>2 DEF StoreInit, OrderInv, InOrder, Unique, Of, Closed

(* What a compaction keeps is closed in what it merged. *)
LEMMA KeptClosed ==
    ASSUME NEW vs \in SUBSET Versions, NEW w \in Nat, NEW top \in Nat, \A v \in vs : v.ts <= top
    PROVE  Kept(vs, w) \subseteq vs /\ Closed(Kept(vs, w), vs)
<1>1. Kept(vs, w) \subseteq vs
    BY DEF Kept
<1>2. ASSUME NEW v \in Kept(vs, w), NEW u \in vs, Later(u, v) PROVE u \in Kept(vs, w)
    <2> DEFINE same == {x \in vs : x.key = v.key}
    <2>1. u.ts \in Nat /\ v.ts \in Nat /\ v \in vs /\ u \in same /\ v \in same /\ u.ts > v.ts
        BY <1>1, <1>2 DEF Versions, Later
    <2>2. NewestOf(same) \in same /\ \A x \in same : x.ts <= NewestOf(same).ts
        BY <2>1, NewestExists
    <2>3. v # NewestOf(same)
        BY <2>1, <2>2
    <2>4. v.ts >= w
        BY <1>2, <2>3 DEF Kept
    <2>5. u.ts >= w /\ ~(u.ts < w)
        BY <2>1, <2>4
    <2>6. {x \in vs : x.key = u.key} = same
        BY <1>2 DEF Later
    <2> QED BY <2>5, <2>6 DEF Kept
<1> QED BY <1>1, <1>2 DEF Closed

(* Timestamps stay unique, and the sets of versions within each other. *)
LEMMA KnownNext ==
    ASSUME StageInv, DurableInv, OrderInv, [StoreNext]_storeVars
    PROVE  /\ Unique((acked \cup Records \cup inflight)')
           /\ mem' \subseteq acked' /\ OnDisk' \subseteq acked'
           /\ pc' # "down" => Records' \subseteq acked' \cup inflight' \cup behind'
           /\ pc' = "merged" => file'[seq'] = Kept(OnTables', watermark')
<1>0. /\ StoreTypes /\ Stages /\ MaxSeq \in Nat /\ seq \in Nat
      /\ wal \in Seq(Segments) /\ wal # <<>>
    BY StoreBoundsAssumption DEF StageInv, StoreTypes, Segments
<1>known. /\ Unique(acked \cup Records \cup inflight) /\ mem \subseteq acked /\ OnDisk \subseteq acked
          /\ pc # "down" => Records \subseteq acked \cup inflight \cup behind
    BY DEF OrderInv
<1>1. CASE Write
    <2>1. PICK v \in Versions : Log(v) /\ \A u \in acked \cup Records : u.ts # v.ts
        BY <1>0, <1>1, WriteLogs
    <2>2. /\ pc = "idle" /\ pc' = "logged" /\ inflight = {} /\ inflight' = {v}
          /\ UNCHANGED <<OnDisk, mem, acked>> /\ behind \subseteq behind'
        BY <1>0, <2>1 DEF Log, Stages, OnDisk, tableVars
    <2>3. Records' \subseteq Records \cup {v}
        BY <1>0, <2>1, RecordsOfLog DEF Log
    <2> QED BY <1>known, <2>1, <2>2, <2>3 DEF Unique
<1>2. CASE Insert
    <2>1. /\ mem' = mem \cup inflight /\ acked' = acked \cup inflight /\ inflight' = {}
          /\ pc = "logged" /\ pc' = "idle" /\ UNCHANGED <<Records, OnDisk, behind>>
        BY <1>2 DEF Insert, diskVars, Records, OnDisk, marks
    <2> QED BY <1>known, <2>1 DEF Unique
<1>3. CASE WriteTable
    <2>1. seq + 1 \in Seqs /\ seq + 1 \notin disk /\ disk \subseteq Seqs
        BY <1>0, <1>3 DEF WriteTable, StoreTypes, Stages, Seqs
    <2>2. /\ file' = [file EXCEPT ![seq + 1] = mem] /\ disk' = disk \cup {seq + 1}
          /\ pc' = "written" /\ pc = "idle" /\ UNCHANGED <<Records, mem, inflight, acked, behind>>
        BY <1>3 DEF WriteTable, Records, timeVars, marks
    <2>3. OnDisk' = OnDisk \cup mem
        BY <1>0, <2>1, <2>2 DEF OnDisk, StoreTypes
    <2> QED BY <1>known, <2>2, <2>3 DEF Unique
<1>4. CASE InsertTable \/ ClearMemtable \/ SwapTables
    <2>1. /\ UNCHANGED <<Records, OnDisk, inflight, acked, behind>> /\ mem' \in {mem, {}}
          /\ pc # "down" /\ pc' # "merged" /\ pc' # "down"
        BY <1>4 DEF InsertTable, ClearMemtable, SwapTables, diskVars, timeVars, marks, Records,
                    OnDisk
    <2> QED BY <1>known, <2>1 DEF Unique
<1>5. CASE Rotate
    <2>1. Records' = Records
        BY <1>0, <1>5, Rotated DEF Rotate
    <2> QED BY <1>known, <1>5, <2>1 DEF Rotate, OnDisk, timeVars, marks, tableVars, Unique
<1>6. CASE DropSegment
    <2>1. /\ pc = "rotated" /\ pc' \in {"idle", "rotated"} /\ seq \in disk
          /\ UNCHANGED <<OnDisk, mem, inflight, acked>> /\ behind \subseteq behind' \cup file[seq]
        BY <1>0, <1>6 DEF DropSegment, Stages, tableVars, OnDisk
    <2>2. Records' \subseteq Records
        BY <1>0, <1>6, RecordsOfRest DEF DropSegment, Stages
    <2>3. file[seq] \subseteq acked
        BY <1>known, <2>1 DEF OnDisk
    <2> QED BY <1>known, <2>1, <2>2, <2>3 DEF Unique
<1>7. CASE Merge
    <2>1. /\ seq + 1 \in Seqs /\ seq + 1 \notin disk /\ disk \subseteq Seqs /\ disk = tables
        BY <1>0, <1>7 DEF Merge, StoreTypes, Stages, Seqs
    <2>2. PICK w \in watermark..(clock + 1) :
              watermark' = w /\ file' = [file EXCEPT ![seq + 1] = Kept(OnTables, w)]
        BY <1>7 DEF Merge
    <2>3. /\ disk' = disk \cup {seq + 1} /\ seq' = seq + 1 /\ pc = "idle" /\ pc' = "merged"
          /\ UNCHANGED <<Records, tables, mem, inflight, acked, behind>>
        BY <1>7 DEF Merge, marks, Records
    <2>4. file'[seq + 1] = Kept(OnTables, w) /\ \A s \in disk : file'[s] = file[s]
        BY <1>0, <2>1, <2>2 DEF StoreTypes
    <2>5. OnTables = OnDisk /\ OnTables' = OnTables
        BY <2>1, <2>3, <2>4 DEF OnDisk, OnTables
    <2>6. Kept(OnTables, w) \subseteq OnTables
        BY DEF Kept
    <2>7. OnDisk' \subseteq OnDisk
        <3>1. ASSUME NEW s \in disk' PROVE file'[s] \subseteq OnDisk
            BY <2>3, <2>4, <2>5, <2>6, <3>1 DEF OnDisk
        <3> QED BY <3>1 DEF OnDisk
    <2>8. file'[seq'] = Kept(OnTables', watermark')
        BY <2>2, <2>3, <2>4, <2>5
    <2> QED BY <1>known, <2>3, <2>7, <2>8 DEF Unique
<1>8. CASE UnlinkTable
    <2>1. /\ disk' \subseteq disk /\ pc = "unlinking" /\ pc' \in {"idle", "unlinking"}
          /\ UNCHANGED <<wal, file, mem, inflight, acked, behind>>
        BY <1>8 DEF UnlinkTable, timeVars, marks
    <2>2. OnDisk' \subseteq OnDisk /\ Records' = Records
        BY <2>1 DEF OnDisk, Records
    <2> QED BY <1>known, <2>1, <2>2 DEF Unique
<1>9. CASE Crash \/ CrashInAppend
    <2>1. mem' = {} /\ inflight' = {} /\ pc' = "down" /\ UNCHANGED <<OnDisk, acked>>
        BY <1>9 DEF Crash, CrashInAppend, ProcessDies, OnDisk
    <2>2. Records' \subseteq Records
        <3>1. CASE Crash
            BY <3>1 DEF Crash, Records
        <3>2. CASE CrashInAppend
            BY <1>0, <3>2, RecordsOfRest DEF CrashInAppend
        <3> QED BY <1>9, <3>1, <3>2
    <2> QED BY <1>known, <2>1, <2>2 DEF Unique
<1>10. CASE Restart
    <2>1. Replayed \subseteq Records /\ Records \subseteq Replayed \cup behind
        BY <1>0, ReplayReaches DEF DurableInv
    <2>2. /\ mem' = Replayed /\ acked' = acked \cup Replayed /\ inflight' = inflight
          /\ pc' = "idle" /\ UNCHANGED <<Records, OnDisk, behind>>
        BY <1>10 DEF Restart, diskVars, Records, OnDisk, marks
    <2> QED BY <1>known, <2>1, <2>2 DEF Unique
<1>11. CASE UNCHANGED <<diskVars, seq, tables, doomed, mem, pc, inflight, timeVars>>
    BY <1>11 DEF OrderInv, OnDisk, OnTables, Records, diskVars, timeVars, marks
<1> QED BY <1>1, <1>2, <1>3, <1>4, <1>5, <1>6, <1>7, <1>8, <1>9, <1>10, <1>11, StoreSteps

(* Of a key that is not marked: all records are replayed, and acknowledged unless
   the process died. *)
LEMMA KeyFacts ==
    ASSUME StageInv, DurableInv, OrderInv, NEW k \in Keys, k \notin disordered
    PROVE  /\ InOrder(k) /\ Of(Records, k) = Of(Replayed, k) /\ Replayed \subseteq Records
           /\ pc # "down" => Of(Records, k) \subseteq acked \cup inflight
<1>1. \A v \in behind : v.key # k
    BY DEF DurableInv, Hidden
<1>2. Replayed \subseteq Records /\ Records \subseteq Replayed \cup behind
    BY ReplayReaches DEF StageInv, DurableInv
<1> QED BY <1>1, <1>2 DEF OrderInv, Of

(* Every key that a step leaves unmarked stays in order. *)
LEMMA KeyNext ==
    ASSUME StageInv, DurableInv, OrderInv, [StoreNext]_storeVars,
           NEW k \in Keys, k \notin disordered'
    PROVE  InOrder(k)'
<1>0. /\ StoreTypes /\ Stages /\ MaxSeq \in Nat /\ MaxTs \in Nat /\ clock \in Nat /\ seq \in Nat
      /\ wal \in Seq(Segments) /\ wal # <<>>
    BY StoreBoundsAssumption DEF StageInv, StoreTypes, Segments
<1>typed. /\ Records \cup InFiles \cup mem \cup inflight \cup acked \subseteq Versions
      /\ OnDisk \subseteq InFiles /\ OnTables \subseteq InFiles
      /\ \A v \in Records \cup InFiles \cup mem \cup inflight \cup acked : v.ts <= clock
    BY <1>0, VersionsTyped DEF StoreTypes
<1>stamps. \A v \in Versions : v.ts \in Nat
    BY DEF Versions
<1>key. /\ k \notin disordered /\ InOrder(k) /\ Of(Records, k) = Of(Replayed, k)
        /\ Replayed \subseteq Records
        /\ pc # "down" => Of(Records, k) \subseteq acked \cup inflight
    <2>1. k \notin disordered
        BY <1>0, MarksStay
    <2> QED BY <2>1, KeyFacts
<1>known. mem \subseteq acked /\ OnDisk \subseteq acked
    BY DEF OrderInv
<1>1. CASE Write
    <2>1. PICK v \in Versions :
              /\ Log(v) /\ (v.key \notin disordered' => ~Torn /\ clock < v.ts /\ clock' = v.ts)
        BY <1>0, <1>1, WriteLogs
    <2>2. /\ pc = "idle" /\ inflight = {} /\ inflight' = {v} /\ wal' = LogWith(v)
          /\ UNCHANGED <<file, disk, mem, acked>>
        BY <1>0, <2>1 DEF Log, Stages, tableVars
    <2>3. /\ Records \subseteq Records' /\ Records' \subseteq Records \cup {v}
          /\ DOMAIN wal' = DOMAIN wal
          /\ \A i \in DOMAIN wal : /\ wal'[i].recs \subseteq wal[i].recs \cup {v}
                                   /\ i # Len(wal) => wal'[i] = wal[i]
          /\ ~Torn => v \in Records'
        BY <1>0, <2>2, LogContents, RecordsOfLog
    <2>4. v.key = k => /\ clock < v.ts /\ clock' = v.ts /\ v \in Records'
                       /\ \A u \in acked \cup Of(Records, k) : u.ts < v.ts
        <3> SUFFICES ASSUME v.key = k
                     PROVE  /\ clock < v.ts /\ clock' = v.ts /\ v \in Records'
                            /\ \A u \in acked \cup Of(Records, k) : u.ts < v.ts
            OBVIOUS
        <3>1. clock < v.ts /\ clock' = v.ts /\ v \in Records'
            BY <2>1, <2>3
        <3>2. \A u \in acked \cup Of(Records, k) : u \in Versions /\ u.ts <= clock
            BY <1>typed DEF Of
        <3>3. \A u \in acked \cup Of(Records, k) : u.ts < v.ts
            BY <1>0, <1>stamps, <3>1, <3>2
        <3> QED BY <3>1, <3>3
    <2>5. Of(mem', k) \subseteq Records'
        BY <1>key, <2>2, <2>3 DEF InOrder
    <2>6. \A u \in Of(inflight', k) : u.ts = clock' /\ u \in Records'
        BY <2>2, <2>4 DEF Of
    <2>7. \A i, j \in DOMAIN wal' : i < j =>
             \A u \in Of(wal'[i].recs, k), x \in Of(wal'[j].recs, k) : u.ts < x.ts
        <3>1. Len(wal) \in DOMAIN wal
            BY <1>0
        <3>2. TAKE i, j \in DOMAIN wal'
        <3>3. HAVE i < j
        <3>4. i # Len(wal)
            BY <1>0, <2>3, <3>3
        <3>5. wal'[i] = wal[i] /\ Of(wal[i].recs, k) \subseteq Of(Records, k)
            BY <2>3, <3>4 DEF Records, Of
        <3>6. Of(wal'[j].recs, k) \subseteq Of(wal[j].recs, k) \cup Of({v}, k)
            BY <2>3 DEF Of
        <3>7. \A u \in Of(wal[i].recs, k), x \in Of(wal[j].recs, k) : u.ts < x.ts
            BY <1>key, <2>3, <3>3 DEF InOrder
        <3>8. \A u \in Of(wal[i].recs, k), x \in Of({v}, k) : u.ts < x.ts
            BY <2>4, <3>5 DEF Of
        <3> QED BY <3>5, <3>6, <3>7, <3>8
    <2>8. Closed(Of(Records', k), acked')
        <3>1. ASSUME NEW x \in Of(Records', k), NEW u \in acked, Later(u, x)
              PROVE  u \in Of(Records', k)
            <4>1. x # v
                <5>1. CASE x = v
                    <6>1. u.ts < v.ts /\ u.ts > v.ts
                        BY <2>4, <3>1, <5>1 DEF Later, Of
                    <6> QED BY <1>typed, <1>stamps, <6>1
                <5> QED BY <5>1
            <4>2. x \in Of(Records, k)
                BY <2>3, <3>1, <4>1 DEF Of
            <4>3. u \in Of(Records, k)
                BY <1>key, <3>1, <4>2 DEF InOrder, Closed
            <4> QED BY <2>3, <4>3 DEF Of
        <3> QED BY <2>2, <3>1 DEF Closed
    <2>9. Closed(Of(mem', k), acked') /\ \A s, u \in disk' : s < u => Closed(Of(file'[u], k), file'[s])
        BY <1>key, <2>2 DEF InOrder
    <2> QED BY <2>5, <2>6, <2>7, <2>8, <2>9 DEF InOrder
<1>2. CASE Insert
    <2>1. /\ mem' = mem \cup inflight /\ acked' = acked \cup inflight /\ inflight' = {}
          /\ UNCHANGED <<wal, file, disk>>
        BY <1>2 DEF Insert, diskVars
    <2>2. Records' = Records
        BY <2>1 DEF Records
    <2>3. Of(mem', k) = Of(mem, k) \cup Of(inflight, k)
        BY <2>1 DEF Of
    <2>4. \A v \in Of(inflight, k) : v \in Of(Records, k) /\ \A u \in acked \cup inflight : ~Later(u, v)
        <3> SUFFICES ASSUME NEW v \in Of(inflight, k)
                     PROVE  v \in Of(Records, k) /\ \A u \in acked \cup inflight : ~Later(u, v)
            OBVIOUS
        <3>1. v \in Records /\ v.key = k /\ v.ts = clock
            BY <1>key DEF InOrder, Of
        <3>2. \A u \in acked \cup inflight : u.ts <= clock /\ u.ts \in Nat
            BY <1>typed, <1>stamps
        <3> QED BY <1>0, <3>1, <3>2 DEF Later, Of
    <2>5. Of(mem', k) \subseteq Records'
        BY <1>key, <2>2, <2>3, <2>4 DEF InOrder, Of
    <2>6. ASSUME NEW x \in Of(Records, k), NEW u \in acked \cup inflight, Later(u, x)
          PROVE  u \in Of(Records, k)
        <3>1. CASE u \in acked
            BY <1>key, <2>6, <3>1 DEF InOrder, Closed
        <3>2. CASE u \in inflight
            BY <2>4, <2>6, <3>2 DEF Later, Of
        <3> QED BY <2>6, <3>1, <3>2
    <2>7. ASSUME NEW x \in Of(mem', k), NEW u \in acked \cup inflight, Later(u, x)
          PROVE  u \in Of(mem', k)
        <3>1. x \in Of(mem, k)
            BY <2>3, <2>4, <2>7
        <3>2. CASE u \in acked
            BY <1>key, <2>3, <2>7, <3>1, <3>2 DEF InOrder, Closed
        <3>3. CASE u \in inflight
            BY <2>3, <2>7, <3>3 DEF Later, Of
        <3> QED BY <2>7, <3>2, <3>3
    <2>8. Closed(Of(Records', k), acked') /\ Closed(Of(mem', k), acked')
        BY <2>1, <2>2, <2>6, <2>7 DEF Closed
    <2> QED BY <1>key, <2>1, <2>5, <2>8 DEF InOrder, Of
<1>3. CASE WriteTable
    <2>1. seq + 1 \in Seqs /\ seq + 1 \notin disk /\ disk \subseteq Seqs /\ disk \subseteq 1..seq
        BY <1>0, <1>3 DEF WriteTable, StoreTypes, Stages, Seqs
    <2>2. /\ file' = [file EXCEPT ![seq + 1] = mem] /\ disk' = disk \cup {seq + 1}
          /\ UNCHANGED <<wal, mem, inflight, clock, acked>>
        BY <1>3 DEF WriteTable, timeVars
    <2>3. file'[seq + 1] = mem /\ \A s \in disk : file'[s] = file[s]
        BY <1>0, <2>1, <2>2 DEF StoreTypes
    <2>4. \A s, u \in disk' : s < u => Closed(Of(file'[u], k), file'[s])
        <3>1. TAKE s, u \in disk'
        <3>2. HAVE s < u
        <3>3. s \in disk
            BY <1>0, <2>1, <2>2, <3>2
        <3>4. file'[s] \subseteq acked
            BY <1>known, <2>3, <3>3 DEF OnDisk
        <3>5. CASE u = seq + 1
            BY <1>key, <2>3, <3>4, <3>5 DEF InOrder, Closed
        <3>6. CASE u \in disk
            BY <1>key, <2>3, <3>2, <3>3, <3>6 DEF InOrder
        <3> QED BY <2>2, <3>5, <3>6
    <2> QED BY <1>key, <2>2, <2>4 DEF InOrder, Records
<1>4. CASE InsertTable \/ ClearMemtable \/ SwapTables
    <2>1. UNCHANGED <<wal, file, disk, inflight, clock, acked>> /\ mem' \in {mem, {}}
        BY <1>4 DEF InsertTable, ClearMemtable, SwapTables, diskVars, timeVars
    <2> QED BY <1>key, <2>1 DEF InOrder, Of, Closed, Records
<1>5. CASE Rotate
    <2>1. /\ wal' = Append(wal, EmptySegment)
          /\ UNCHANGED <<file, disk, mem, inflight, clock, acked>>
        BY <1>5 DEF Rotate, timeVars
    <2>2. /\ Records' = Records
          /\ \A i \in DOMAIN wal' : IF i \in DOMAIN wal THEN wal'[i] = wal[i]
                                    ELSE wal'[i].recs = {}
          /\ \A i, j \in DOMAIN wal' : i < j => i \in DOMAIN wal
        BY <1>0, <2>1, Rotated
    <2>3. \A i, j \in DOMAIN wal' : i < j =>
             \A u \in Of(wal'[i].recs, k), x \in Of(wal'[j].recs, k) : u.ts < x.ts
        <3>1. TAKE i, j \in DOMAIN wal'
        <3>2. HAVE i < j
        <3>3. i \in DOMAIN wal /\ wal'[i] = wal[i]
            BY <2>2, <3>2
        <3>4. CASE j \in DOMAIN wal
            BY <1>key, <2>2, <3>2, <3>3, <3>4 DEF InOrder
        <3>5. CASE j \notin DOMAIN wal
            BY <2>2, <3>5 DEF Of
        <3> QED BY <3>4, <3>5
    <2> QED BY <1>key, <2>1, <2>2, <2>3 DEF InOrder
<1>6. CASE DropSegment
    <2>1. /\ wal' = Tail(wal) /\ mem = {} /\ inflight = {} /\ Len(wal) > 1
          /\ UNCHANGED <<file, disk, mem, inflight, clock, acked>>
        BY <1>0, <1>6 DEF DropSegment, Stages, tableVars
    <2>2. \A i \in DOMAIN wal' : i + 1 \in DOMAIN wal /\ wal'[i] = wal[i + 1] /\ i \in Nat /\ i > 0
        BY <1>0, <2>1
    <2>3. Records' \subseteq Records
        BY <1>0, <2>1, RecordsOfRest
    <2>4. \A i, j \in DOMAIN wal' : i < j =>
             \A u \in Of(wal'[i].recs, k), x \in Of(wal'[j].recs, k) : u.ts < x.ts
        <3>1. TAKE i, j \in DOMAIN wal'
        <3>2. HAVE i < j
        <3>3. i + 1 < j + 1
            BY <2>2, <3>2
        <3> QED BY <1>key, <2>2, <3>3 DEF InOrder
    <2>5. ASSUME NEW v \in Of(Records', k), NEW u \in acked, Later(u, v) PROVE u \in Of(Records', k)
        <3>1. PICK i \in DOMAIN wal' : v \in wal'[i].recs
            BY DEF Records, Of
        <3>2. v \in Of(wal[i + 1].recs, k) /\ i + 1 \in DOMAIN wal /\ i + 1 > 1
            BY <2>2, <3>1 DEF Of
        <3>3. u \in Of(Records, k) /\ v \in Records
            BY <1>key, <2>3, <2>5 DEF InOrder, Closed, Of
        <3>4. PICK j \in DOMAIN wal : u \in wal[j].recs
            BY <3>3 DEF Records, Of
        <3>5. j # 1
            <4>1. SUFFICES ASSUME j = 1 PROVE FALSE
                OBVIOUS
            <4>2. u.ts < v.ts
                BY <1>key, <3>2, <3>3, <3>4, <4>1 DEF InOrder, Of
            <4> QED BY <1>typed, <1>stamps, <2>5, <3>3, <4>2 DEF Later
        <3>6. j - 1 \in DOMAIN wal' /\ wal'[j - 1] = wal[j]
            BY <1>0, <2>1, <3>4, <3>5
        <3> QED BY <3>3, <3>4, <3>6 DEF Records, Of
    <2>6. Closed(Of(Records', k), acked')
        BY <2>1, <2>5 DEF Closed
    <2>7. Of(mem', k) = {} /\ Of(inflight', k) = {} /\ Closed(Of(mem', k), acked')
        BY <2>1 DEF Of, Closed
    <2> QED BY <1>key, <2>1, <2>4, <2>6, <2>7 DEF InOrder
<1>7. CASE Merge
    <2>1. /\ seq + 1 \in Seqs /\ seq + 1 \notin disk /\ disk \subseteq Seqs /\ disk = tables
          /\ disk \subseteq 1..seq
        BY <1>0, <1>7 DEF Merge, StoreTypes, Stages, Seqs
    <2>2. PICK w \in watermark..(clock + 1) :
              watermark' = w /\ file' = [file EXCEPT ![seq + 1] = Kept(OnTables, w)]
        BY <1>7 DEF Merge
    <2>3. /\ disk' = disk \cup {seq + 1}
          /\ UNCHANGED <<wal, mem, inflight, clock, acked>>
        BY <1>7 DEF Merge
    <2>4. w \in Nat
        BY <1>0, <2>2 DEF StoreTypes
    <2>5. file'[seq + 1] = Kept(OnTables, w) /\ \A s \in disk : file'[s] = file[s]
        BY <1>0, <2>1, <2>2 DEF StoreTypes
    <2>6. Closed(Kept(OnTables, w), OnTables)
        <3>1. OnTables \in SUBSET Versions /\ \A v \in OnTables : v.ts <= clock
            BY <1>typed
        <3> QED BY <1>0, <2>4, <3>1, KeptClosed
    <2>8. \A s, u \in disk' : s < u => Closed(Of(file'[u], k), file'[s])
        <3>1. TAKE s, u \in disk'
        <3>2. HAVE s < u
        <3>3. s \in disk
            BY <1>0, <2>1, <2>3, <3>2
        <3>4. file'[s] \subseteq OnTables
            BY <2>1, <2>5, <3>3 DEF OnTables
        <3>5. CASE u = seq + 1
            BY <2>5, <2>6, <3>4, <3>5 DEF Closed, Of, Later
        <3>6. CASE u \in disk
            BY <1>key, <2>5, <3>2, <3>3, <3>6 DEF InOrder
        <3> QED BY <2>3, <3>5, <3>6
    <2> QED BY <1>key, <2>3, <2>8 DEF InOrder, Records
<1>8. CASE UnlinkTable
    <2>1. /\ disk' \subseteq disk /\ UNCHANGED <<wal, file, mem, inflight, clock, acked>>
        BY <1>8 DEF UnlinkTable, timeVars
    <2> QED BY <1>key, <2>1 DEF InOrder, Records
<1>9. CASE Crash \/ CrashInAppend
    <2>1. /\ mem' = {} /\ inflight' = {} /\ UNCHANGED <<file, disk, clock, acked>>
        BY <1>9 DEF Crash, CrashInAppend, ProcessDies
    <2>2. DOMAIN wal' = DOMAIN wal /\ \A i \in DOMAIN wal : wal'[i].recs = wal[i].recs
        <3>1. CASE Crash
            BY <3>1 DEF Crash
        <3>2. CASE CrashInAppend
            <4>1. PICK part \in BOOLEAN : wal' = [wal EXCEPT ![Len(wal)].torn = @ \/ part]
                BY <3>2 DEF CrashInAppend
            <4> QED BY <1>0, <4>1, TearingKeeps
        <3> QED BY <1>9, <3>1, <3>2
    <2>3. Records' = Records
        BY <2>2 DEF Records
    <2> QED BY <1>key, <2>1, <2>2, <2>3 DEF InOrder, Closed, Of
<1>10. CASE Restart
    <2>1. /\ mem' = Replayed /\ acked' = acked \cup Replayed /\ inflight' = inflight /\ inflight = {}
          /\ UNCHANGED <<wal, file, disk, clock>>
        BY <1>0, <1>10 DEF Restart, diskVars, Stages
    <2>2. Records' = Records /\ Of(mem', k) = Of(Records, k)
        BY <1>key, <2>1 DEF Records
    <2>3. Closed(Of(Records, k), acked')
        BY <1>key, <2>1 DEF InOrder, Closed, Later, Of
    <2> QED BY <1>key, <2>1, <2>2, <2>3 DEF InOrder, Of
<1>11. CASE UNCHANGED <<diskVars, seq, tables, doomed, mem, pc, inflight, timeVars>>
    BY <1>key, <1>11 DEF InOrder, Records, diskVars, timeVars
<1> QED BY <1>1, <1>2, <1>3, <1>4, <1>5, <1>6, <1>7, <1>8, <1>9, <1>10, <1>11, StoreSteps

LEMMA OrderNext ==
    ASSUME StageInv, DurableInv, OrderInv, [StoreNext]_storeVars
    PROVE  OrderInv'
<1>1. \A k \in Keys \ disordered' : InOrder(k)'
    BY KeyNext
<1> QED BY <1>1, KnownNext DEF OrderInv, Unique, Kept

(* A part that holds the newest version answers like the whole. *)
LEMMA SameAnswer ==
    ASSUME NEW vs \in SUBSET Versions, NEW us \in SUBSET vs, NEW top \in Nat,
           \A v \in vs : v.ts <= top, Unique(vs),
           vs # {} => NewestOf(vs) \in us
    PROVE  Answer(us) = Answer(vs)
<1>1. CASE vs = {}
    BY <1>1
<1>2. CASE vs # {}
    <2>1. NewestOf(vs) \in us /\ us # {} /\ us \in SUBSET Versions
        BY <1>2
    <2>2. \A u \in vs : u.ts <= NewestOf(vs).ts
        BY <1>2, NewestExists
    <2>3. NewestOf(us) \in us /\ \A u \in us : u.ts <= NewestOf(us).ts
        BY <2>1, NewestExists
    <2>4. NewestOf(us).ts = NewestOf(vs).ts
        <3>1. NewestOf(us).ts \in Nat /\ NewestOf(vs).ts \in Nat
            BY <2>1, <2>3 DEF Versions
        <3> QED BY <2>1, <2>2, <2>3, <3>1
    <2>5. NewestOf(us) = NewestOf(vs)
        BY <2>1, <2>3, <2>4 DEF Unique
    <2> QED BY <1>2, <2>1, <2>5 DEF Answer
<1> QED BY <1>1, <1>2

(* A set whose versions of a key are closed in another one, and that holds one of
   them, holds the newest version of the key there. *)
LEMMA ClosedHoldsNewest ==
    ASSUME NEW vs \in SUBSET Versions, NEW us \in SUBSET Versions, Unique(vs \cup us), NEW k,
           Closed(Of(us, k), vs), NEW n \in vs, NEW u \in us, n.key = k, u.key = k, u.ts <= n.ts
    PROVE  n \in us
<1>1. n.ts \in Nat /\ u.ts \in Nat
    BY DEF Versions
<1>2. CASE n.ts = u.ts
    BY <1>2 DEF Unique
<1>3. CASE n.ts > u.ts
    BY <1>3 DEF Closed, Later, Of
<1> QED BY <1>1, <1>2, <1>3

LEMMA FirstFound == StageInv /\ OrderInv => GetAgreesWithScan
<1> SUFFICES ASSUME StageInv, OrderInv, pc # "down", NEW k \in Keys \ disordered,
                    NEW t \in 0..clock
             PROVE  LET holding == {s \in tables : Hits(file[s], k, t) # {}}
                        first == IF Hits(mem, k, t) # {} THEN Hits(mem, k, t)
                                 ELSE IF holding = {} THEN {} ELSE Hits(file[Max(holding)], k, t)
                    IN Answer(first) = Scanned(k, t)
    BY DEF GetAgreesWithScan, Agree
<1> DEFINE holding == {s \in tables : Hits(file[s], k, t) # {}}
           all == Hits(mem \cup OnTables, k, t)
           first == IF Hits(mem, k, t) # {} THEN Hits(mem, k, t)
                    ELSE IF holding = {} THEN {} ELSE Hits(file[Max(holding)], k, t)
<1>0. /\ StoreTypes /\ Stages /\ MaxSeq \in Nat /\ MaxTs \in Nat /\ clock \in Nat
      /\ tables \in SUBSET Seqs /\ tables \subseteq disk
    BY StoreBoundsAssumption DEF StageInv, StoreTypes, Stages
<1>key. InOrder(k)
    BY DEF OrderInv
<1>1. /\ mem \cup OnTables \subseteq acked /\ acked \subseteq Versions
      /\ \A v \in acked : v.ts <= clock
    BY <1>0, VersionsTyped DEF OrderInv, StoreTypes, OnTables, OnDisk
<1>2. Unique(acked)
    BY DEF OrderInv, Unique
<1>3. /\ all \in SUBSET Versions /\ Unique(all) /\ \A v \in all : v.ts <= clock
      /\ all \subseteq acked
    BY <1>1, <1>2 DEF Hits, Unique
<1>4. all # {} => NewestOf(all) \in all /\ \A v \in all : v.ts <= NewestOf(all).ts
    BY <1>0, <1>3, NewestExists
<1>5. CASE Hits(mem, k, t) # {}
    <2>1. PICK u \in Hits(mem, k, t) : TRUE
        BY <1>5
    <2>2. u \in all /\ u \in mem /\ u.key = k
        BY <2>1 DEF Hits
    <2>3. NewestOf(all) \in acked /\ NewestOf(all).key = u.key /\ u.ts <= NewestOf(all).ts
          /\ NewestOf(all).ts <= t
        BY <1>3, <1>4, <2>2 DEF Hits
    <2>4. mem \in SUBSET Versions /\ acked \in SUBSET Versions /\ Unique(acked \cup mem)
        BY <1>1, <1>2 DEF Unique
    <2>5. NewestOf(all) \in mem
        BY <1>key, <2>2, <2>3, <2>4, ClosedHoldsNewest DEF InOrder
    <2>6. NewestOf(all) \in Hits(mem, k, t)
        BY <2>2, <2>3, <2>5 DEF Hits
    <2>7. Hits(mem, k, t) \in SUBSET all
        BY DEF Hits
    <2>8. Answer(Hits(mem, k, t)) = Answer(all)
        BY <1>0, <1>3, <2>6, <2>7, SameAnswer
    <2> QED BY <1>5, <2>8 DEF Scanned
<1>6. CASE Hits(mem, k, t) = {} /\ holding = {}
    <2>1. all = {}
        BY <1>6 DEF Hits, OnTables
    <2> QED BY <1>6, <2>1 DEF Scanned
<1>7. CASE Hits(mem, k, t) = {} /\ holding # {}
    <2>1. holding \in SUBSET (0..MaxSeq)
        <3>1. holding \subseteq tables
            OBVIOUS
        <3>2. tables \subseteq 0..MaxSeq
            BY <1>0 DEF Seqs
        <3> QED BY <3>1, <3>2
    <2>2. Max(holding) \in holding /\ \A s \in holding : s <= Max(holding)
        BY <1>0, <1>7, <2>1, Greatest
    <2>3. PICK s \in holding : s = Max(holding)
        BY <2>2
    <2>4. PICK u \in Hits(file[s], k, t) : TRUE
        OBVIOUS
    <2>5. s \in tables /\ file[s] \subseteq OnTables /\ u \in file[s] /\ u.key = k /\ u \in all
        BY <2>4 DEF OnTables, Hits
    <2>6. NewestOf(all) \in OnTables /\ NewestOf(all).key = u.key /\ u.ts <= NewestOf(all).ts
          /\ NewestOf(all).ts <= t
        BY <1>4, <1>7, <2>5 DEF Hits
    <2>7. PICK r \in tables : NewestOf(all) \in file[r]
        BY <2>6 DEF OnTables
    <2>8. NewestOf(all) \in Hits(file[r], k, t)
        BY <2>5, <2>6, <2>7 DEF Hits
    <2>9. r \in holding
        BY <2>8
    <2>10. NewestOf(all) \in file[s]
        <3>1. CASE r = s
            BY <2>7, <3>1
        <3>2. CASE r # s
            <4>1. r < s
                <5>1. r <= s
                    BY <2>2, <2>3, <2>9
                <5>2. r \in Nat /\ s \in Nat
                    BY <1>0, <2>5, <2>7 DEF Seqs
                <5> QED BY <3>2, <5>1, <5>2
            <4>2. Closed(Of(file[s], k), file[r])
                BY <1>0, <1>key, <2>5, <2>7, <4>1 DEF InOrder
            <4>3. file[r] \subseteq acked /\ file[s] \subseteq acked
                BY <1>1, <2>5, <2>7 DEF OnTables
            <4>4. file[r] \in SUBSET Versions /\ file[s] \in SUBSET Versions
                  /\ Unique(file[r] \cup file[s])
                BY <1>1, <1>2, <4>3 DEF Unique
            <4> QED BY <2>5, <2>6, <2>7, <4>2, <4>4, ClosedHoldsNewest
        <3> QED BY <3>1, <3>2
    <2>11. NewestOf(all) \in Hits(file[s], k, t) /\ Hits(file[s], k, t) \in SUBSET all
        BY <2>5, <2>6, <2>10 DEF Hits
    <2>12. Answer(Hits(file[s], k, t)) = Answer(all)
        BY <1>0, <1>3, <2>11, SameAnswer
    <2> QED BY <1>7, <2>3, <2>12 DEF Scanned
<1> QED BY <1>5, <1>6, <1>7

(* MVCCStore.get and scan: asking the memtable and then the tables from the
   newest file to the oldest, and stopping at the first that holds the key,
   finds what a merge of them all finds, of every key none of whose writes was
   overtaken or logged behind a torn record. *)
THEOREM GetAgreesWithScanHolds == StoreSpec => []GetAgreesWithScan
<1> DEFINE I == StageInv /\ DurableInv /\ OrderInv
<1>1. StoreInit => I
    BY StageInit, DurableInit, OrderInit
<1>2. I /\ [StoreNext]_storeVars => I'
    BY StageNext, DurableNext, OrderNext
<1>3. I => GetAgreesWithScan
    BY FirstFound
<1> QED BY <1>1, <1>2, <1>3, PTL DEF StoreSpec

-----------------------------------------------------------------------------
(* The newest version stays visible *)

LEMMA VisibleInit == StoreInit => VisibleInv
<1> SUFFICES ASSUME StoreInit PROVE VisibleInv
    OBVIOUS
<1>1. acked = {} /\ pc # "down"
    BY DEF StoreInit
<1> QED BY <1>1 DEF VisibleInv, Visible, Shows, ShowsOf, Of

(* The newest version of a key. *)
LEMMA NewestOfKey ==
    ASSUME NEW vs \in SUBSET Versions, NEW top \in Nat, \A v \in vs : v.ts <= top,
           NEW k \in Keys, Of(vs, k) # {}
    PROVE  /\ NewestOf(Of(vs, k)) \in vs /\ NewestOf(Of(vs, k)).key = k
           /\ NewestOf(Of(vs, k)) \in Versions
           /\ \A v \in vs : v.key = k => v.ts <= NewestOf(Of(vs, k)).ts
<1>1. Of(vs, k) \in SUBSET Versions /\ \A v \in Of(vs, k) : v.ts <= top
    BY DEF Of
<1>2. NewestOf(Of(vs, k)) \in Of(vs, k) /\ \A u \in Of(vs, k) : u.ts <= NewestOf(Of(vs, k)).ts
    BY <1>1, NewestExists
<1> QED BY <1>2 DEF Of

(* More of the versions show the newest one too, unless there was none. *)
LEMMA ShowsWider ==
    ASSUME NEW A, NEW S, NEW T, NEW k, S \subseteq T, Shows(S, A, k), Of(S, k) = {} => Of(T, k) = {}
    PROVE  Shows(T, A, k)
<1>1. Of(S, k) \subseteq Of(T, k)
    BY DEF Of
<1> QED BY <1>1 DEF Shows, ShowsOf

(* Versions beside those that show do not hide them, if they are closed. *)
LEMMA ShowsMore ==
    ASSUME NEW A \in SUBSET Versions, NEW S \in SUBSET A, NEW R \in SUBSET Versions,
           NEW top \in Nat, \A v \in A \cup R : v.ts <= top, Unique(A \cup R), NEW k \in Keys,
           Shows(S, A, k), Closed(Of(R, k), A)
    PROVE  Shows(S \cup R, A \cup R, k)
<1> SUFFICES ASSUME Of(A \cup R, k) # {}
             PROVE  IF Of(S \cup R, k) = {} THEN NewestOf(Of(A \cup R, k)).dead
                    ELSE NewestOf(Of(A \cup R, k)) \in Of(S \cup R, k)
    BY DEF Shows, ShowsOf
<1>1. PICK n \in A \cup R : n = NewestOf(Of(A \cup R, k))
    BY NewestOfKey
<1>2. n.key = k /\ n \in Versions /\ \A v \in A \cup R : v.key = k => v.ts <= n.ts
    BY <1>1, NewestOfKey
<1>3. CASE n \in R
    BY <1>1, <1>2, <1>3 DEF Of
<1>4. CASE n \notin R
    <2>1. n \in A /\ n \in Of(A, k)
        BY <1>2, <1>4 DEF Of
    <2>2. NewestOf(Of(A, k)) = n
        <3>1. PICK m \in A : m = NewestOf(Of(A, k)) /\ m.key = k /\ m \in Versions
              /\ \A v \in A : v.key = k => v.ts <= m.ts
            BY <2>1, NewestOfKey
        <3>2. m.ts = n.ts
            BY <1>2, <2>1, <3>1 DEF Versions
        <3> QED BY <2>1, <3>1, <3>2 DEF Unique
    <2>3. \A r \in R : r.key # k
        <3>1. ASSUME NEW r \in R, r.key = k PROVE FALSE
            <4>1. r.ts <= n.ts /\ Unique(A \cup R)
                BY <1>2, <3>1
            <4> QED BY <1>2, <1>4, <2>1, <3>1, <4>1, ClosedHoldsNewest
        <3> QED BY <3>1
    <2>4. Of(S \cup R, k) = Of(S, k)
        BY <2>3 DEF Of
    <2> QED BY <1>1, <2>1, <2>2, <2>4 DEF Shows, ShowsOf
<1> QED BY <1>3, <1>4

(* What a compaction keeps of the tables shows what the tables showed. *)
LEMMA ShowsKept ==
    ASSUME NEW A \in SUBSET Versions, NEW M \in SUBSET A, NEW T \in SUBSET A,
           NEW top \in Nat, NEW w \in Nat, \A v \in A : v.ts <= top, Unique(A),
           NEW k \in Keys, Closed(Of(M, k), A), Shows(M \cup T, A, k)
    PROVE  Shows(M \cup Kept(T, w), A, k)
<1> SUFFICES ASSUME Of(A, k) # {}
             PROVE  IF Of(M \cup Kept(T, w), k) = {} THEN NewestOf(Of(A, k)).dead
                    ELSE NewestOf(Of(A, k)) \in Of(M \cup Kept(T, w), k)
    BY DEF Shows, ShowsOf
<1>1. PICK n \in A : n = NewestOf(Of(A, k))
    BY NewestOfKey
<1>2. n.key = k /\ n \in Versions /\ \A v \in A : v.key = k => v.ts <= n.ts
    BY <1>1, NewestOfKey
<1>3. Kept(T, w) \subseteq T
    BY DEF Kept
<1>4. CASE Of(M \cup T, k) = {}
    <2>1. Of(M \cup Kept(T, w), k) = {}
        BY <1>3, <1>4 DEF Of
    <2> QED BY <1>4, <2>1 DEF Shows, ShowsOf
<1>5. CASE n \in M
    BY <1>1, <1>2, <1>5 DEF Of
<1>6. CASE Of(M \cup T, k) # {} /\ n \notin M
    <2> DEFINE same == {u \in T : u.key = n.key}
    <2>1. n \in T
        BY <1>1, <1>6 DEF Shows, ShowsOf, Of
    <2>2. NewestOf(same) = n
        <3>1. same \in SUBSET Versions /\ n \in same /\ \A v \in same : v.ts <= n.ts
            BY <1>2, <2>1
        <3>2. n.ts \in Nat
            BY <1>2 DEF Versions
        <3>3. NewestOf(same) \in same /\ \A v \in same : v.ts <= NewestOf(same).ts
            BY <3>1, <3>2, NewestExists
        <3>4. NewestOf(same).ts = n.ts
            BY <3>1, <3>2, <3>3 DEF Versions
        <3> QED BY <3>1, <3>3, <3>4 DEF Unique
    <2>3. \A v \in M : v.key # k
        <3>1. ASSUME NEW v \in M, v.key = k PROVE FALSE
            <4>1. v.ts <= n.ts /\ A \cup M = A /\ v \in A
                BY <1>2, <3>1
            <4> QED BY <1>2, <1>6, <3>1, <4>1, ClosedHoldsNewest
        <3> QED BY <3>1
    <2>4. CASE ~(n.dead /\ n.ts < w)
        <3>1. n \in Kept(T, w)
            BY <2>1, <2>2, <2>4 DEF Kept
        <3> QED BY <1>1, <1>2, <3>1 DEF Of
    <2>5. CASE n.dead /\ n.ts < w
        <3>1. ASSUME NEW x \in Kept(T, w), x.key = k PROVE FALSE
            <4>1. x \in T /\ x.ts <= n.ts /\ x.ts \in Nat /\ n.ts \in Nat
                BY <1>2, <1>3, <3>1 DEF Versions
            <4>2. {u \in T : u.key = x.key} = same
                BY <1>2, <3>1
            <4>3. x # n
                BY <2>2, <2>5, <4>2 DEF Kept
            <4>4. x.ts >= w
                BY <2>2, <4>2, <4>3 DEF Kept
            <4> QED BY <2>5, <4>1, <4>4
        <3>2. Of(M \cup Kept(T, w), k) = {}
            BY <2>3, <3>1 DEF Of
        <3> QED BY <1>1, <2>5, <3>2
    <2> QED BY <2>4, <2>5
<1> QED BY <1>4, <1>5, <1>6

LEMMA VisibleNext ==
    ASSUME StageInv, DurableInv, OrderInv, VisibleInv, [StoreNext]_storeVars
    PROVE  VisibleInv'
<1> SUFFICES ASSUME NEW k \in Keys, k \notin disordered' \cup exposed'
             PROVE  IF pc' = "down" THEN Shows(Records' \cup OnDisk', acked' \cup Records', k)
                                    ELSE Shows(mem' \cup OnTables', acked', k)
    BY DEF VisibleInv, Visible, Shows, ShowsOf, Of, NewestOf
<1>0. /\ StoreTypes /\ Stages /\ MaxSeq \in Nat /\ MaxTs \in Nat /\ clock \in Nat /\ seq \in Nat
      /\ wal \in Seq(Segments) /\ wal # <<>>
    BY StoreBoundsAssumption DEF StageInv, StoreTypes, Segments
<1>typed. /\ Records \cup InFiles \cup mem \cup inflight \cup acked \subseteq Versions
      /\ OnDisk \subseteq InFiles /\ OnTables \subseteq InFiles
      /\ \A v \in Records \cup InFiles \cup mem \cup inflight \cup acked : v.ts <= clock
    BY <1>0, VersionsTyped DEF StoreTypes
<1>key. /\ InOrder(k) /\ Of(Records, k) = Of(Replayed, k) /\ Replayed \subseteq Records
        /\ IF pc = "down" THEN Shows(Records \cup OnDisk, acked \cup Records, k)
                          ELSE Shows(mem \cup OnTables, acked, k)
    <2>1. k \notin disordered /\ k \notin exposed
        BY <1>0, MarksStay
    <2> QED BY <2>1, KeyFacts DEF VisibleInv, Visible
<1>within. pc # "down" => tables \subseteq disk /\ mem \cup OnTables \subseteq acked
    <2>1. pc # "down" => tables \subseteq disk
        BY <1>0 DEF Stages, StoreTypes
    <2>2. tables \subseteq disk => OnTables \subseteq OnDisk
        BY DEF OnTables, OnDisk
    <2>3. mem \subseteq acked /\ OnDisk \subseteq acked
        BY DEF OrderInv
    <2> QED BY <2>1, <2>2, <2>3
<1>unique. Unique(acked \cup Records \cup inflight)
    BY DEF OrderInv
<1>1. CASE Write
    <2>1. UNCHANGED <<file, tables, mem, acked>> /\ pc # "down" /\ pc' # "down"
        BY <1>0, <1>1, WriteLogs DEF Log, tableVars
    <2>2. OnTables' = OnTables
        BY <2>1 DEF OnTables
    <2> QED BY <1>key, <2>1, <2>2
<1>2. CASE Insert
    <2>1. /\ mem' = mem \cup inflight /\ acked' = acked \cup inflight
          /\ pc = "logged" /\ pc' = "idle" /\ UNCHANGED <<file, tables>>
        BY <1>2 DEF Insert, diskVars, tableVars
    <2>2. OnTables' = OnTables
        BY <2>1 DEF OnTables
    <2>3. Closed(Of(inflight, k), acked)
        <3> SUFFICES ASSUME NEW v \in Of(inflight, k), NEW u \in acked PROVE ~Later(u, v)
            BY DEF Closed
        <3>1. v.ts = clock /\ u.ts <= clock /\ u.ts \in Nat
            BY <1>key, <1>typed DEF InOrder, Versions
        <3> QED BY <1>0, <3>1 DEF Later
    <2>4. Unique(acked \cup inflight)
        BY <1>unique DEF Unique
    <2>5. acked \in SUBSET Versions /\ inflight \in SUBSET Versions
          /\ (mem \cup OnTables) \in SUBSET acked /\ \A v \in acked \cup inflight : v.ts <= clock
        BY <1>typed, <1>within, <2>1
    <2>6. Shows(mem \cup OnTables, acked, k)
        BY <1>key, <2>1
    <2>7. Shows((mem \cup OnTables) \cup inflight, acked \cup inflight, k)
        BY <1>0, <2>3, <2>4, <2>5, <2>6, ShowsMore
    <2>8. (mem \cup OnTables) \cup inflight = mem' \cup OnTables'
        BY <2>1, <2>2
    <2> QED BY <2>1, <2>7, <2>8
<1>3. CASE WriteTable \/ Merge
    <2>1. /\ UNCHANGED <<tables, mem, acked>> /\ pc = "idle" /\ pc' # "down"
          /\ \E new : file' = [file EXCEPT ![seq + 1] = new]
        BY <1>3 DEF WriteTable, Merge, timeVars
    <2>2. seq + 1 \notin tables /\ tables \subseteq Seqs
        BY <1>0, <2>1 DEF StoreTypes, Stages
    <2>3. \A s \in tables : file'[s] = file[s]
        BY <1>0, <2>1, <2>2 DEF StoreTypes
    <2>4. OnTables' = OnTables
        BY <2>1, <2>3 DEF OnTables
    <2> QED BY <1>key, <2>1, <2>4
<1>4. CASE InsertTable
    <2>1. /\ tables' = tables \cup {seq} /\ pc = "written" /\ pc' = "inserted"
          /\ UNCHANGED <<file, mem, acked>>
        BY <1>4 DEF InsertTable, diskVars, timeVars
    <2>2. OnTables' = OnTables \cup mem
        BY <1>0, <2>1 DEF OnTables, Stages
    <2>3. mem' \cup OnTables' = mem \cup OnTables
        BY <2>1, <2>2
    <2> QED BY <1>key, <2>1, <2>3
<1>5. CASE ClearMemtable
    <2>1. /\ mem' = {} /\ pc = "inserted" /\ pc' = "cleared" /\ UNCHANGED <<file, tables, acked>>
        BY <1>5 DEF ClearMemtable, diskVars, tableVars, timeVars
    <2>2. mem \subseteq OnTables
        BY <1>0, <2>1 DEF Stages, OnTables
    <2>3. OnTables' = OnTables
        BY <2>1 DEF OnTables
    <2>4. mem' \cup OnTables' = mem \cup OnTables
        BY <2>1, <2>2, <2>3
    <2> QED BY <1>key, <2>1, <2>4
<1>6. CASE Rotate \/ DropSegment \/ UnlinkTable
    <2>1. UNCHANGED <<file, tables, mem, acked>> /\ pc # "down" /\ pc' # "down"
        BY <1>6 DEF Rotate, DropSegment, UnlinkTable, tableVars, timeVars
    <2>2. OnTables' = OnTables
        BY <2>1 DEF OnTables
    <2> QED BY <1>key, <2>1, <2>2
<1>7. CASE SwapTables
    <2>1. /\ tables' = {seq} /\ pc = "merged" /\ pc' = "unlinking" /\ UNCHANGED <<file, mem, acked>>
        BY <1>7 DEF SwapTables, diskVars, timeVars
    <2>2. OnTables' = Kept(OnTables, watermark)
        <3>1. file[seq] = Kept(OnTables, watermark)
            BY <2>1 DEF OrderInv
        <3>2. OnTables' = file[seq]
            BY <2>1 DEF OnTables
        <3> QED BY <3>1, <3>2
    <2>3. acked \in SUBSET Versions /\ mem \in SUBSET acked /\ OnTables \in SUBSET acked
          /\ \A v \in acked : v.ts <= clock
        BY <1>typed, <1>within, <2>1
    <2>4. watermark \in Nat
        BY <1>0 DEF StoreTypes
    <2>5. Unique(acked) /\ Closed(Of(mem, k), acked)
        BY <1>key, <1>unique DEF Unique, InOrder
    <2>6. Shows(mem \cup OnTables, acked, k)
        BY <1>key, <2>1
    <2>7. Shows(mem \cup Kept(OnTables, watermark), acked, k)
        BY <1>0, <2>3, <2>4, <2>5, <2>6, ShowsKept
    <2> QED BY <2>1, <2>2, <2>7
<1>8. CASE Crash \/ CrashInAppend
    <2>1. /\ pc' = "down" /\ pc # "down" /\ UNCHANGED <<file, disk, acked>>
          /\ pc = "unlinking" => exposed' = exposed \cup Reappearing
        BY <1>8 DEF Crash, CrashInAppend, ProcessDies
    <2>2. Records' = Records
        <3>1. CASE Crash
            BY <3>1 DEF Crash, Records
        <3>2. CASE CrashInAppend
            <4>1. PICK part \in BOOLEAN : wal' = [wal EXCEPT ![Len(wal)].torn = @ \/ part]
                BY <3>2 DEF CrashInAppend
            <4>2. DOMAIN wal' = DOMAIN wal /\ \A i \in DOMAIN wal : wal'[i].recs = wal[i].recs
                BY <1>0, <4>1, TearingKeeps
            <4> QED BY <4>2 DEF Records
        <3> QED BY <1>8, <3>1, <3>2
    <2>3. OnDisk' = OnDisk
        BY <2>1 DEF OnDisk
    <2>4. Of(mem \cup OnTables, k) = {} => Of(mem \cup OnDisk, k) = {}
        <3>1. CASE pc = "unlinking"
            <4>1. k \notin Reappearing /\ OnDisk = OnTables \cup UNION {file[s] : s \in doomed}
                BY <1>0, <2>1, <3>1 DEF Stages, OnDisk, OnTables
            <4>2. \A v \in UNION {file[s] : s \in doomed} :
                     v.key = k => \E u \in mem \cup OnTables : u.key = k
                BY <4>1 DEF Reappearing
            <4> QED BY <4>1, <4>2 DEF Of
        <3>2. CASE pc # "unlinking"
            <4>1. \A s \in disk : s \in tables \/ file[s] \subseteq mem \cup OnTables
                <5>1. CASE pc = "written"
                    BY <1>0, <5>1 DEF Stages
                <5>2. CASE pc = "merged"
                    <6>1. file[seq] \subseteq OnTables
                        BY <5>2 DEF OrderInv, Kept
                    <6> QED BY <1>0, <5>2, <6>1 DEF Stages
                <5>3. CASE pc \notin {"written", "merged"}
                    BY <1>0, <2>1, <3>2, <5>3 DEF Stages, StoreTypes
                <5> QED BY <5>1, <5>2, <5>3
            <4>2. OnDisk \subseteq mem \cup OnTables
                BY <4>1 DEF OnDisk, OnTables
            <4> QED BY <4>2 DEF Of
        <3> QED BY <3>1, <3>2
    <2>5. Shows(mem \cup OnDisk, acked, k)
        <3>1. mem \cup OnTables \subseteq mem \cup OnDisk
            BY <1>within, <2>1 DEF OnTables, OnDisk
        <3>2. Shows(mem \cup OnTables, acked, k)
            BY <1>key, <2>1
        <3> QED BY <2>4, <3>1, <3>2, ShowsWider
    <2>6. acked \in SUBSET Versions /\ (mem \cup OnDisk) \in SUBSET acked
          /\ Records \in SUBSET Versions /\ \A v \in acked \cup Records : v.ts <= clock
        BY <1>typed DEF OrderInv
    <2>7. Closed(Of(Records, k), acked) /\ Unique(acked \cup Records)
        BY <1>key, <1>unique DEF InOrder, Unique
    <2>8. Shows((mem \cup OnDisk) \cup Records, acked \cup Records, k)
        BY <1>0, <2>5, <2>6, <2>7, ShowsMore
    <2>9. Of((mem \cup OnDisk) \cup Records, k) = Of(Records \cup OnDisk, k)
        BY <1>key DEF InOrder, Of
    <2> QED BY <2>1, <2>2, <2>3, <2>8, <2>9 DEF Shows
<1>9. CASE Restart
    <2>1. /\ mem' = Replayed /\ acked' = acked \cup Replayed /\ tables' = disk
          /\ pc = "down" /\ pc' = "idle" /\ UNCHANGED file
        BY <1>9 DEF Restart, diskVars
    <2>2. OnTables' = OnDisk
        BY <2>1 DEF OnTables, OnDisk
    <2>3. Of(mem' \cup OnTables', k) = Of(Records \cup OnDisk, k)
          /\ Of(acked', k) = Of(acked \cup Records, k)
        BY <1>key, <2>1, <2>2 DEF Of
    <2> QED BY <1>key, <2>1, <2>3 DEF Shows
<1>10. CASE UNCHANGED <<diskVars, seq, tables, doomed, mem, pc, inflight, timeVars>>
    <2>1. UNCHANGED <<wal, file, disk, tables, mem, pc, acked>>
        BY <1>10 DEF diskVars, timeVars
    <2>2. Records' = Records /\ OnDisk' = OnDisk /\ OnTables' = OnTables
        BY <2>1 DEF Records, OnDisk, OnTables
    <2> QED BY <1>key, <2>1, <2>2
<1> QED BY <1>1, <1>2, <1>3, <1>4, <1>5, <1>6, <1>7, <1>8, <1>9, <1>10, StoreSteps

(* What shows the newest version of W answers like W. *)
LEMMA ShownAnswer ==
    ASSUME NEW W \in SUBSET Versions, NEW S \in SUBSET W, NEW top \in Nat,
           \A v \in W : v.ts <= top, Unique(W), ShowsOf(S, W)
    PROVE  Answer(S) = Answer(W)
<1>1. CASE W = {}
    BY <1>1
<1>2. CASE W # {} /\ S = {}
    BY <1>2 DEF ShowsOf, Answer
<1>3. CASE W # {} /\ S # {}
    BY <1>3, SameAnswer DEF ShowsOf
<1> QED BY <1>1, <1>2, <1>3

LEMMA VisibleShows == StageInv /\ OrderInv /\ VisibleInv => NewestVisible
<1> SUFFICES ASSUME StageInv, OrderInv, VisibleInv, pc # "down",
                    NEW k \in Keys \ (disordered \cup exposed)
             PROVE  Answer(Hits(mem \cup OnTables, k, clock)) = Answer(Hits(acked, k, clock))
    BY DEF NewestVisible, Shown
<1>0. StoreTypes /\ Stages /\ clock \in Nat
    BY DEF StageInv, StoreTypes
<1>1. /\ mem \cup OnTables \subseteq acked /\ acked \in SUBSET Versions
      /\ \A v \in acked : v.ts <= clock
    BY <1>0, VersionsTyped DEF OrderInv, StoreTypes, OnTables, OnDisk, Stages
<1>2. Hits(mem \cup OnTables, k, clock) = Of(mem \cup OnTables, k)
      /\ Hits(acked, k, clock) = Of(acked, k)
    BY <1>1 DEF Hits, Of
<1>3. Of(mem \cup OnTables, k) \in SUBSET Of(acked, k) /\ Of(acked, k) \in SUBSET Versions
      /\ (\A v \in Of(acked, k) : v.ts <= clock) /\ Unique(Of(acked, k))
    BY <1>1 DEF Of, Unique, OrderInv
<1>4. ShowsOf(Of(mem \cup OnTables, k), Of(acked, k))
    BY DEF VisibleInv, Visible, Shows
<1> QED BY <1>0, <1>2, <1>3, <1>4, ShownAnswer

(* MVCCStore: a running node shows the newest write of every key, whatever
   flushes, compactions, crashes and restarts came between, but for the keys
   of which a write was overtaken or logged behind a torn record, and those of
   which nothing was left when the process died between two unlinks. *)
THEOREM NewestVisibleHolds == StoreSpec => []NewestVisible
<1> DEFINE I == StageInv /\ DurableInv /\ OrderInv /\ VisibleInv
<1>1. StoreInit => I
    BY StageInit, DurableInit, OrderInit, VisibleInit
<1>2. I /\ [StoreNext]_storeVars => I'
    BY StageNext, DurableNext, OrderNext, VisibleNext
<1>3. I => NewestVisible
    BY VisibleShows
<1> QED BY <1>1, <1>2, <1>3, PTL DEF StoreSpec

-----------------------------------------------------------------------------
(* A get beside writes, flushes and compactions *)

(* The versions a get should answer from. *)
Wanted(g) == Hits(acked, getter[g].key, getter[g].ts)

(* A compaction was entitled to drop the version the get should answer with,
   since a newer one is there. *)
Overtaken(g) ==
    /\ Wanted(g) # {} /\ NewestOf(Wanted(g)).ts < watermark
    /\ \E v \in acked : v.key = getter[g].key /\ v.ts > getter[g].ts

(* What a get finds in S is what it should answer. *)
Tells(g, S) == ShowsOf(Hits(S, getter[g].key, getter[g].ts), Wanted(g)) \/ Overtaken(g)

(* The tables a get has still to read *)
ToRead(g) == getter[g].todo \cup {s \in {getter[g].using} : getter[g].at = "reading"}
Ahead(g) == UNION {file[s] : s \in ToRead(g)}

(* Before a get is done it has found nothing: neither in the memtable, which has
   only got newer versions since, nor in the tables it has read. *)
Searching(g) ==
    /\ getter[g].answer = 0
    /\ Hits(mem, getter[g].key, getter[g].ts) = {}
    /\ Tells(g, OnTables)
    /\ getter[g].at # "listing" =>
          /\ Ahead(g) \subseteq acked /\ Tells(g, Ahead(g))
          /\ \A s, u \in ToRead(g) : s < u => Closed(Of(file[u], getter[g].key), file[s])
    /\ getter[g].at = "reading" => \A s \in getter[g].todo : s < getter[g].using

GetOk(g) ==
    /\ \A v \in inflight : v.key = getter[g].key => v.ts > getter[g].ts
    /\ IF getter[g].at = "done"
       THEN getter[g].answer = Answer(Wanted(g)) \/ Overtaken(g)
       ELSE Searching(g)

(* What runs beside a get of a key that is not marked does not change what it
   should answer: a write of the key comes with a later timestamp. *)
Unmarked(g) == getter[g].key \notin disordered \cup exposed
GetInv ==
    /\ \A v \in inflight : v.key \notin disordered => v.ts > 0 /\ \A u \in acked : u.ts < v.ts
    /\ \A g \in Getters : getter[g].at # "idle" => pc # "down" /\ getter[g].ts <= clock
    /\ \A g \in Getters : getter[g].at # "idle" /\ Unmarked(g) => GetOk(g)

(* A compaction keeps what a get at time t should answer with, or it was
   entitled to drop it, as a newer version is there. *)
LEMMA KeptShowsOf ==
    ASSUME NEW A \in SUBSET Versions, NEW T \in SUBSET A, NEW top \in Nat, NEW w \in Nat,
           \A v \in A : v.ts <= top, Unique(A), NEW k \in Keys, NEW t \in Nat,
           ShowsOf(Hits(T, k, t), Hits(A, k, t))
    PROVE  \/ ShowsOf(Hits(Kept(T, w), k, t), Hits(A, k, t))
           \/ /\ Hits(A, k, t) # {} /\ NewestOf(Hits(A, k, t)).ts < w
              /\ \E v \in A : v.key = k /\ v.ts > t
<1> DEFINE W == Hits(A, k, t)
           n == NewestOf(W)
<1> SUFFICES ASSUME W # {}, ~ShowsOf(Hits(Kept(T, w), k, t), W)
             PROVE  n.ts < w /\ \E v \in A : v.key = k /\ v.ts > t
    BY DEF ShowsOf
<1>1. \A v \in A : v.ts \in Nat /\ v \in Versions
    BY DEF Versions
<1>2. W \in SUBSET Versions /\ \A v \in W : v.ts <= top
    BY DEF Hits
<1>3. n \in W /\ \A v \in W : v.ts <= n.ts
    BY <1>2, NewestExists
<1>4. Kept(T, w) \subseteq T
    BY DEF Kept
<1>5. Hits(T, k, t) # {}
    <2>1. CASE Hits(T, k, t) = {}
        <3>1. Hits(Kept(T, w), k, t) = {}
            BY <1>4, <2>1 DEF Hits
        <3> QED BY <2>1, <3>1 DEF ShowsOf
    <2> QED BY <2>1
<1>6. n \in T /\ n.key = k /\ n.ts <= t /\ n \in A
    BY <1>3, <1>5 DEF ShowsOf, Hits
<1>7. n \notin Kept(T, w)
    <2>1. CASE n \in Kept(T, w)
        <3>1. n \in Hits(Kept(T, w), k, t)
            BY <1>6, <2>1 DEF Hits
        <3> QED BY <3>1 DEF ShowsOf
    <2> QED BY <2>1
<1> DEFINE m == NewestOf(Of(T, k))
<1>8. Of(T, k) # {}
    BY <1>6 DEF Of
<1>9. m \in T /\ m.key = k /\ \A v \in T : v.key = k => v.ts <= m.ts
    <2>1. T \in SUBSET Versions /\ \A v \in T : v.ts <= top
        OBVIOUS
    <2> QED BY <1>8, <2>1, NewestOfKey
<1>10. \A v \in T : v.key = k => {u \in T : u.key = v.key} = Of(T, k)
    BY DEF Of
<1>11. CASE n = m
    <2>1. n.dead /\ n.ts < w
        BY <1>6, <1>7, <1>10, <1>11 DEF Kept
    <2>2. Hits(Kept(T, w), k, t) = {}
        <3> SUFFICES ASSUME NEW v \in Hits(Kept(T, w), k, t) PROVE FALSE
            OBVIOUS
        <3>1. v \in Kept(T, w) /\ v \in T /\ v.key = k
            BY <1>4 DEF Hits
        <3>2. v # m
            BY <1>7, <1>11, <3>1
        <3>3. v.ts >= w
            BY <1>10, <3>1, <3>2 DEF Kept
        <3>4. v.ts <= n.ts
            BY <1>9, <1>11, <3>1
        <3> QED BY <1>1, <1>6, <2>1, <3>1, <3>3, <3>4
    <2> QED BY <2>1, <2>2 DEF ShowsOf
<1>12. CASE n # m
    <2>1. ~(n.ts >= w)
        BY <1>6, <1>7, <1>10, <1>12 DEF Kept
    <2>2. n.ts < w
        BY <1>1, <1>6, <2>1
    <2>3. m \in A /\ m.ts \in Nat /\ n.ts \in Nat
        BY <1>1, <1>6, <1>9
    <2>4. n.ts < m.ts
        <3>1. n.ts # m.ts
            BY <1>6, <1>12, <2>3 DEF Unique
        <3>2. n.ts <= m.ts
            BY <1>6, <1>9
        <3> QED BY <2>3, <3>1, <3>2
    <2>5. m.ts > t
        <3>1. ~(m.ts <= t)
            <4>1. CASE m.ts <= t
                <5>1. m \in W
                    BY <1>9, <2>3, <4>1 DEF Hits
                <5>2. m.ts <= n.ts
                    BY <1>3, <5>1
                <5> QED BY <2>3, <2>4, <5>2
            <4> QED BY <4>1
        <3> QED BY <2>3, <3>1
    <2> QED BY <1>9, <2>2, <2>3, <2>5
<1> QED BY <1>11, <1>12

(* The first table with a hit answers like all the tables still to be read. *)
LEMMA FirstShows ==
    ASSUME NEW A \in SUBSET Versions, NEW top \in Nat, \A v \in A : v.ts <= top, Unique(A),
           NEW R, NEW s \in R, UNION {file[r] : r \in R} \subseteq A,
           NEW k \in Keys, NEW t \in Nat, \A r \in R : r # s => Closed(Of(file[s], k), file[r]),
           Hits(file[s], k, t) # {},
           ShowsOf(Hits(UNION {file[r] : r \in R}, k, t), Hits(A, k, t))
    PROVE  Answer(Hits(file[s], k, t)) = Answer(Hits(A, k, t))
<1> DEFINE W == Hits(A, k, t)
           n == NewestOf(W)
           U == UNION {file[r] : r \in R}
<1>1. file[s] \subseteq U /\ U \subseteq A
    OBVIOUS
<1>2. W \in SUBSET Versions /\ (\A v \in W : v.ts <= top) /\ Unique(W)
    BY DEF Hits, Unique
<1>3. PICK u \in Hits(file[s], k, t) : TRUE
    OBVIOUS
<1>4. u \in file[s] /\ u.key = k /\ u \in W /\ u \in Hits(U, k, t)
    BY <1>1, <1>3 DEF Hits
<1>5. n \in Hits(U, k, t)
    BY <1>4 DEF ShowsOf
<1>6. n \in W /\ \A v \in W : v.ts <= n.ts
    BY <1>2, <1>4, NewestExists
<1>7. n.key = k /\ n.ts <= t /\ u.ts <= n.ts
    BY <1>4, <1>6 DEF Hits
<1>8. PICK r \in R : n \in file[r]
    BY <1>5 DEF Hits
<1>9. n \in file[s]
    <2>1. CASE r = s
        BY <1>8, <2>1
    <2>2. CASE r # s
        <3>1. file[s] \in SUBSET Versions /\ file[r] \in SUBSET Versions /\ Unique(file[r] \cup file[s])
            BY <1>1 DEF Unique
        <3>2. Closed(Of(file[s], k), file[r])
            BY <2>2
        <3> QED BY <1>4, <1>7, <1>8, <3>1, <3>2, ClosedHoldsNewest
    <2> QED BY <2>1, <2>2
<1>10. n \in Hits(file[s], k, t) /\ Hits(file[s], k, t) \in SUBSET W
    BY <1>1, <1>7, <1>9 DEF Hits
<1> HIDE DEF W, U
<1>11. Answer(Hits(file[s], k, t)) = Answer(W)
    BY <1>2, <1>10, SameAnswer DEF n
<1> QED BY <1>11 DEF W

(* What the invariants so far say of versions and tables *)
LEMMA GetFacts ==
    ASSUME StageInv, OrderInv, RefInv
    PROVE  /\ acked \in SUBSET Versions /\ mem \in SUBSET Versions /\ inflight \in SUBSET Versions
           /\ Unique(acked) /\ mem \subseteq acked /\ OnTables \subseteq acked
           /\ clock \in Nat /\ watermark \in Nat /\ seq \in Nat /\ MaxSeq \in Nat
           /\ \A v \in acked : v.ts <= clock /\ v.ts \in Nat
           /\ tables \subseteq disk /\ tables \subseteq Listable /\ Listable \subseteq Seqs
           /\ \A g \in Getters :
                 /\ getter[g].key \in Keys /\ getter[g].ts \in Nat /\ getter[g] \in Gets
                 /\ ToRead(g) \subseteq Listable
<1>1. StoreTypes /\ Stages /\ MaxSeq \in Nat /\ MaxTs \in Nat
    BY StoreBoundsAssumption DEF StageInv
<1>2. acked \in SUBSET Versions /\ mem \in SUBSET Versions /\ inflight \in SUBSET Versions
    BY <1>1, VersionsTyped
<1>3. clock \in Nat /\ watermark \in Nat /\ seq \in Nat
    BY <1>1 DEF StoreTypes
<1>4. \A v \in acked : v.ts <= clock /\ v.ts \in Nat
    BY <1>1, <1>2 DEF StoreTypes, Versions
<1>5. tables \subseteq disk
    BY <1>1 DEF Stages, StoreTypes
<1>6. tables \subseteq Listable /\ Listable \subseteq Seqs
    BY ListedAreListable
<1>7. Unique(acked) /\ mem \subseteq acked /\ OnTables \subseteq acked
    BY <1>5 DEF OrderInv, Unique, OnDisk, OnTables
<1>8. ASSUME NEW g \in Getters
      PROVE  /\ getter[g].key \in Keys /\ getter[g].ts \in Nat /\ getter[g] \in Gets
             /\ ToRead(g) \subseteq Listable
    <2>1. getter[g] \in Gets
        BY DEF RefInv
    <2>2. getter[g].todo \subseteq Listable
          /\ (getter[g].at = "reading" => getter[g].using \in Listable)
        BY DEF RefInv
    <2>3. ToRead(g) \subseteq Listable
        BY <2>2 DEF ToRead
    <2> QED BY <1>1, <2>1, <2>3 DEF Gets
<1> QED BY <1>1, <1>2, <1>3, <1>4, <1>5, <1>6, <1>7, <1>8

(* A get does not see this version. *)
Past(g, v) == v.key = getter[g].key => v.ts > getter[g].ts

(* A step that leaves a get alone and adds only newer versions of its key keeps
   what it should answer. *)
LEMMA WantedStays ==
    ASSUME StageInv, OrderInv, RefInv, NEW g \in Getters, UNCHANGED getter,
           acked \subseteq acked', \A v \in acked' : v \in acked \/ Past(g, v),
           acked' \in SUBSET Versions, watermark' \in Nat, watermark <= watermark'
    PROVE  Wanted(g)' = Wanted(g) /\ (Overtaken(g) => Overtaken(g)')
<1>1. getter[g].ts \in Nat /\ watermark \in Nat /\ \A v \in acked' : v.ts \in Nat
    BY GetFacts DEF Versions
<1>2. Wanted(g)' = Wanted(g)
    <2>1. \A v \in acked' : v.key = getter[g].key /\ v.ts <= getter[g].ts => v \in acked
        BY <1>1 DEF Past
    <2> QED BY <2>1 DEF Wanted, Hits
<1>3. ASSUME Overtaken(g) PROVE Overtaken(g)'
    <2>1. Wanted(g)' # {} /\ NewestOf(Wanted(g)').ts < watermark
          /\ \E v \in acked' : v.key = getter'[g].key /\ v.ts > getter'[g].ts
        BY <1>2, <1>3 DEF Overtaken
    <2>2. NewestOf(Wanted(g)) \in Versions
        <3>1. Wanted(g) \in SUBSET Versions /\ Wanted(g) # {} /\ \A v \in Wanted(g) : v.ts <= clock
            BY <1>3, GetFacts DEF Wanted, Hits, Overtaken
        <3>2. clock \in Nat
            BY GetFacts
        <3> QED BY <3>1, <3>2, NewestExists
    <2>3. NewestOf(Wanted(g)').ts \in Nat
        BY <1>2, <2>2 DEF Versions
    <2>4. NewestOf(Wanted(g)').ts < watermark'
        BY <1>1, <2>1, <2>3
    <2> QED BY <2>1, <2>4 DEF Overtaken
<1> QED BY <1>2, <1>3

(* A get that is left alone stays as it should be, if the memtable got only newer
   versions of its key, the tables still tell, and those it has listed stay. *)
LEMMA GetStays ==
    ASSUME StageInv, OrderInv, RefInv, NEW g \in Getters, UNCHANGED getter, GetOk(g),
           acked \subseteq acked', \A v \in acked' : v \in acked \/ Past(g, v),
           acked' \in SUBSET Versions, watermark' \in Nat, watermark <= watermark',
           \A v \in inflight' : Past(g, v),
           mem' \in SUBSET Versions, \A v \in mem' : v \in mem \/ Past(g, v),
           \A s \in Listable : file'[s] = file[s],
           getter[g].at # "done" /\ Hits(mem, getter[g].key, getter[g].ts) = {}
               /\ Tells(g, OnTables) => Tells(g, OnTables)'
    PROVE  GetOk(g)'
<1>1. Wanted(g)' = Wanted(g) /\ (Overtaken(g) => Overtaken(g)')
    BY WantedStays
<1>2. getter[g].ts \in Nat /\ clock \in Nat /\ ToRead(g) \subseteq Listable
    BY GetFacts
<1>3. \A v \in inflight' : v.key = getter'[g].key => v.ts > getter'[g].ts
    BY DEF Past
<1>4. CASE getter[g].at = "done"
    BY <1>1, <1>3, <1>4 DEF GetOk
<1>5. CASE getter[g].at # "done"
    <2>1. Searching(g)
        BY <1>5 DEF GetOk
    <2>2. Hits(mem, getter[g].key, getter[g].ts)' = {}
        <3>1. \A v \in mem' : v.ts \in Nat
            BY DEF Versions
        <3>2. \A v \in mem' : v.key = getter[g].key /\ v.ts <= getter[g].ts => v \in mem
            BY <1>2, <3>1 DEF Past
        <3> QED BY <2>1, <3>2 DEF Searching, Hits
    <2>3. Tells(g, OnTables)'
        BY <1>5, <2>1 DEF Searching
    <2>4. ToRead(g)' = ToRead(g)
        BY DEF ToRead
    <2>5. \A s \in ToRead(g) : file'[s] = file[s]
        BY <1>2
    <2>6. Ahead(g)' = Ahead(g)
        BY <2>4, <2>5 DEF Ahead
    <2>7. Tells(g, Ahead(g)) => Tells(g, Ahead(g))'
        BY <1>1, <2>6 DEF Tells
    <2>8. Searching(g)'
        BY <2>1, <2>2, <2>3, <2>4, <2>5, <2>6, <2>7 DEF Searching
    <2> QED BY <1>3, <1>5, <2>8 DEF GetOk
<1> QED BY <1>4, <1>5

(* The same when acknowledged versions, watermark, clock, memtable and tables
   stay what they are. *)
LEMMA GetUntouched ==
    ASSUME StageInv, OrderInv, RefInv, NEW g \in Getters, GetOk(g),
           UNCHANGED <<getter, inflight, tables, clock, watermark, acked>>,
           mem' \in SUBSET mem, \A s \in Listable : file'[s] = file[s]
    PROVE  GetOk(g)'
<1>3. \A v \in inflight' : Past(g, v)
    BY DEF GetOk, Past
<1>4. OnTables' = OnTables
    <2>1. \A s \in tables : file'[s] = file[s]
        BY GetFacts
    <2> QED BY <2>1 DEF OnTables
<1>5. Tells(g, OnTables)' = Tells(g, OnTables)
    BY <1>4 DEF Tells, Wanted, Overtaken
<1>6. acked \in SUBSET Versions /\ mem' \in SUBSET Versions /\ watermark \in Nat
    BY GetFacts
<1>7. watermark <= watermark'
    BY <1>6
<1> QED BY <1>3, <1>5, <1>6, <1>7, GetStays

(* The gets a step leaves alone are those whose key it leaves unmarked. *)
LEMMA GetsLeft ==
    ASSUME StageInv, RefInv, GetInv, UNCHANGED getter, pc' # "down", [StoreNext]_storeVars,
           clock <= clock', clock' \in Nat,
           \A v \in inflight' : v.key \notin disordered' => v.ts > 0 /\ \A u \in acked' : u.ts < v.ts,
           \A g \in Getters : getter[g].at # "idle" /\ Unmarked(g)' /\ GetOk(g)
                               /\ getter[g].ts <= clock => GetOk(g)'
    PROVE  GetInv'
<1>1. disordered \subseteq disordered' /\ exposed \subseteq exposed' /\ clock \in Nat
    BY MarksStay DEF StageInv, StoreTypes
<1>2. \A g \in Getters : getter[g].ts \in Nat
    BY DEF RefInv, Gets
<1>3. ASSUME NEW g \in Getters, getter'[g].at # "idle", Unmarked(g)' PROVE GetOk(g)'
    <2>1. Unmarked(g)
        BY <1>1, <1>3 DEF Unmarked
    <2> QED BY <1>3, <2>1 DEF GetInv
<1>4. ASSUME NEW g \in Getters, getter'[g].at # "idle"
      PROVE  pc' # "down" /\ getter'[g].ts <= clock'
    <2>1. getter[g].ts <= clock
        BY <1>4 DEF GetInv
    <2> QED BY <1>1, <1>2, <2>1
<1> QED BY <1>3, <1>4 DEF GetInv

(* A write that leaves its key unmarked gives its version a timestamp that no get
   of the key has, and that is above all others. *)
LEMMA WriteGets ==
    ASSUME StageInv, OrderInv, RefInv, StageInv', GetInv, Write \/ Insert, StoreNext
    PROVE  GetInv'
<1>0. /\ \A v \in acked \cup inflight : v.ts \in Nat
      /\ clock \in Nat /\ clock' \in Nat /\ watermark \in Nat
      /\ \A g \in Getters : getter[g].ts \in Nat
    BY GetFacts DEF Versions, StageInv, StoreTypes
<1>1. CASE Write
    <2>1. PICK v \in Versions :
              /\ Log(v) /\ v.ts \in 1..MaxTs /\ clock <= clock'
              /\ v.key \notin disordered' => clock < v.ts
        BY <1>1, WriteLogs DEF StageInv
    <2>2. /\ pc = "idle" /\ inflight' = {v} /\ pc' = "logged"
          /\ UNCHANGED <<file, tables, mem, watermark, acked, getter>>
        BY <2>1 DEF Log, tableVars
    <2>3. v.key \notin disordered' => v.ts > 0 /\ \A u \in acked : u.ts < v.ts
        BY <1>0, <2>1, GetFacts, StoreBoundsAssumption
    <2>4. ASSUME NEW g \in Getters, getter[g].at # "idle", Unmarked(g)', GetOk(g),
                 getter[g].ts <= clock
          PROVE  GetOk(g)'
        <3>1. v.key = getter[g].key => v.key \notin disordered'
            BY <2>2, <2>4 DEF Unmarked
        <3>2. Past(g, v)
            BY <1>0, <2>1, <2>4, <3>1, StoreBoundsAssumption DEF Past
        <3>4. Tells(g, OnTables)' = Tells(g, OnTables)
            BY <2>2 DEF Tells, Wanted, Overtaken, OnTables
        <3>5. acked' \in SUBSET Versions /\ mem' \in SUBSET Versions
              /\ watermark <= watermark' /\ watermark' \in Nat
            BY <1>0, <2>2, GetFacts
        <3> QED BY <2>2, <2>4, <3>2, <3>4, <3>5, GetStays
    <2> QED BY <1>0, <2>1, <2>2, <2>3, <2>4, GetsLeft
<1>2. CASE Insert
    <2>1. /\ mem' = mem \cup inflight /\ acked' = acked \cup inflight /\ inflight' = {}
          /\ pc' = "idle" /\ UNCHANGED <<file, tables, clock, watermark, getter>>
        BY <1>2 DEF Insert, diskVars, tableVars
    <2>2. ASSUME NEW g \in Getters, GetOk(g) PROVE GetOk(g)'
        <3>1. \A v \in inflight : Past(g, v)
            BY <2>2 DEF GetOk, Past
        <3>2. acked' \in SUBSET Versions /\ mem' \in SUBSET Versions
            BY <2>1, GetFacts
        <3>3. watermark <= watermark'
            BY <1>0, <2>1
        <3>4. Wanted(g)' = Wanted(g) /\ (Overtaken(g) => Overtaken(g)')
            BY <1>0, <2>1, <3>1, <3>2, <3>3, WantedStays
        <3>5. Tells(g, OnTables) => Tells(g, OnTables)'
            BY <2>1, <3>4 DEF Tells, OnTables
        <3> QED BY <1>0, <2>1, <2>2, <3>1, <3>2, <3>3, <3>5, GetStays
    <2> QED BY <1>0, <2>1, <2>2, GetsLeft
<1> QED BY <1>1, <1>2

(* A flush adds a table in which no get would find anything. *)
LEMMA FlushGets ==
    ASSUME StageInv, OrderInv, RefInv, GetInv, StoreNext,
           WriteTable \/ InsertTable \/ ClearMemtable \/ Rotate \/ DropSegment
    PROVE  GetInv'
<1>0. StoreTypes /\ Stages /\ seq \in Nat /\ MaxSeq \in Nat /\ clock \in Nat
    BY GetFacts DEF StageInv
<1>1. /\ UNCHANGED <<getter, inflight, acked, clock, watermark, disordered, exposed>>
      /\ pc' # "down"
    BY DEF WriteTable, InsertTable, ClearMemtable, Rotate, DropSegment, timeVars, marks
<1>2. ASSUME NEW g \in Getters, GetOk(g) PROVE GetOk(g)'
    <2>1. CASE WriteTable
        <3>1. pc = "idle" /\ file' = [file EXCEPT ![seq + 1] = mem] /\ UNCHANGED <<tables, mem>>
            BY <2>1 DEF WriteTable
        <3>2. Listable = 1..seq /\ Listable \subseteq Seqs
            BY <3>1, GetFacts DEF Listable
        <3>3. \A s \in Listable : file'[s] = file[s]
            BY <1>0, <3>1, <3>2 DEF StoreTypes
        <3> QED BY <1>1, <1>2, <3>1, <3>3, GetUntouched
    <2>2. CASE ClearMemtable \/ Rotate \/ DropSegment
        <3>1. UNCHANGED <<file, tables>> /\ mem' \in SUBSET mem
            BY <2>2 DEF ClearMemtable, Rotate, DropSegment, diskVars, tableVars
        <3> QED BY <1>1, <1>2, <3>1, GetUntouched
    <2>3. CASE InsertTable
        <3>1. pc = "written" /\ tables' = tables \cup {seq} /\ UNCHANGED <<file, mem>>
            BY <2>3 DEF InsertTable, diskVars
        <3>2. file[seq] = mem
            BY <1>0, <3>1 DEF Stages
        <3>3. OnTables' = OnTables \cup mem
            BY <3>1, <3>2 DEF OnTables
        <3>4. ASSUME Hits(mem, getter[g].key, getter[g].ts) = {}, Tells(g, OnTables)
              PROVE  Tells(g, OnTables)'
            <4>1. Hits(OnTables', getter[g].key, getter[g].ts)
                    = Hits(OnTables, getter[g].key, getter[g].ts)
                BY <3>3, <3>4 DEF Hits
            <4> QED BY <1>1, <3>4, <4>1 DEF Tells, Wanted, Overtaken
        <3>5. \A v \in inflight' : Past(g, v)
            BY <1>1, <1>2 DEF GetOk, Past
        <3>6. acked \in SUBSET Versions /\ mem \in SUBSET Versions /\ watermark \in Nat
            BY GetFacts
        <3>7. watermark <= watermark'
            BY <1>1, <3>6
        <3> QED BY <1>1, <1>2, <3>1, <3>4, <3>5, <3>6, <3>7, GetStays
    <2> QED BY <2>1, <2>2, <2>3
<1>3. \A v \in inflight' : v.key \notin disordered' => v.ts > 0 /\ \A u \in acked' : u.ts < v.ts
    BY <1>1 DEF GetInv
<1> QED BY <1>0, <1>1, <1>2, <1>3, GetsLeft

(* A compaction keeps what the gets beside it should answer with, or was
   entitled to drop it. *)
LEMMA CompactGets ==
    ASSUME StageInv, OrderInv, RefInv, StageInv', GetInv, StoreNext,
           Merge \/ SwapTables \/ UnlinkTable
    PROVE  GetInv'
<1>0. StoreTypes /\ Stages /\ seq \in Nat /\ MaxSeq \in Nat /\ clock \in Nat
    BY GetFacts DEF StageInv
<1>1. /\ UNCHANGED <<getter, inflight, acked, clock, mem, disordered, exposed>> /\ pc' # "down"
      /\ watermark \in Nat /\ watermark' \in Nat /\ watermark <= watermark'
    <2>1. watermark' \in Nat /\ watermark \in Nat /\ clock \in Nat
        BY GetFacts DEF StageInv, StoreTypes
    <2>2. watermark <= watermark'
        BY <2>1 DEF Merge, SwapTables, UnlinkTable, timeVars, marks
    <2> QED BY <2>1, <2>2 DEF Merge, SwapTables, UnlinkTable, timeVars, marks
<1>2. \A s \in Listable : file'[s] = file[s]
    <2>1. CASE Merge
        <3>1. PICK w \in watermark..(clock + 1) :
                  watermark' = w /\ file' = [file EXCEPT ![seq + 1] = Kept(OnTables, w)]
            BY <2>1 DEF Merge
        <3>2. Listable = 1..seq /\ Listable \subseteq Seqs
            BY <2>1, GetFacts DEF Listable, Merge
        <3> QED BY <1>0, <3>1, <3>2 DEF StoreTypes
    <2>2. CASE SwapTables \/ UnlinkTable
        BY <2>2 DEF SwapTables, UnlinkTable, diskVars
    <2> QED BY <2>1, <2>2
<1>3. ASSUME NEW g \in Getters, GetOk(g) PROVE GetOk(g)'
    <2>1. Wanted(g)' = Wanted(g) /\ (Overtaken(g) => Overtaken(g)')
        <3>1. acked' \in SUBSET Versions
            BY <1>1, GetFacts
        <3> QED BY <1>1, <3>1, WantedStays
    <2>2. Tells(g, OnTables) => Tells(g, OnTables)'
        <3>1. CASE Merge \/ UnlinkTable
            <4>1. OnTables' = OnTables
                <5>1. tables' = tables /\ \A s \in tables : file'[s] = file[s]
                    BY <1>2, <3>1, GetFacts DEF Merge, UnlinkTable
                <5> QED BY <5>1 DEF OnTables
            <4> QED BY <1>1, <2>1, <4>1 DEF Tells
        <3>2. CASE SwapTables
            <4>1. pc = "merged" /\ tables' = {seq} /\ UNCHANGED <<file, watermark>>
                BY <3>2 DEF SwapTables, diskVars, timeVars, marks
            <4>2. OnTables' = Kept(OnTables, watermark)
                <5>1. file[seq] = Kept(OnTables, watermark)
                    BY <4>1 DEF OrderInv
                <5> QED BY <4>1, <5>1 DEF OnTables
            <4>3. ASSUME Tells(g, OnTables), ~Overtaken(g) PROVE Tells(g, OnTables)'
                <5> DEFINE k == getter[g].key
                           t == getter[g].ts
                <5>1. ShowsOf(Hits(OnTables, k, t), Hits(acked, k, t))
                    BY <4>3 DEF Tells, Wanted
                <5>2. /\ acked \in SUBSET Versions /\ OnTables \in SUBSET acked /\ clock \in Nat
                      /\ (\A v \in acked : v.ts <= clock) /\ Unique(acked)
                      /\ k \in Keys /\ t \in Nat
                    BY GetFacts
                <5>3. \/ ShowsOf(Hits(Kept(OnTables, watermark), k, t), Hits(acked, k, t))
                      \/ /\ Hits(acked, k, t) # {} /\ NewestOf(Hits(acked, k, t)).ts < watermark
                         /\ \E v \in acked : v.key = k /\ v.ts > t
                    BY <1>1, <5>1, <5>2, KeptShowsOf
                <5>4. ShowsOf(Hits(Kept(OnTables, watermark), k, t), Wanted(g))
                    BY <4>3, <5>3 DEF Overtaken, Wanted
                <5> QED BY <1>1, <2>1, <4>2, <5>4 DEF Tells
            <4> QED BY <2>1, <4>3 DEF Tells
        <3> QED BY <3>1, <3>2
    <2>3. \A v \in inflight' : Past(g, v)
        BY <1>1, <1>3 DEF GetOk, Past
    <2>4. acked \in SUBSET Versions /\ mem \in SUBSET Versions
        BY GetFacts
    <2> QED BY <1>1, <1>2, <1>3, <2>2, <2>3, <2>4, GetStays
<1>4. \A v \in inflight' : v.key \notin disordered' => v.ts > 0 /\ \A u \in acked' : u.ts < v.ts
    BY <1>1 DEF GetInv
<1> QED BY <1>0, <1>1, <1>3, <1>4, GetsLeft

(* A crash ends all gets; none begins before the restart. *)
LEMMA CrashGets ==
    ASSUME StageInv, GetInv, Crash \/ CrashInAppend \/ Restart
    PROVE  GetInv'
<1>1. CASE Crash \/ CrashInAppend
    <2>1. inflight' = {} /\ getter' = [g \in Getters |-> IdleGet]
        BY <1>1 DEF Crash, CrashInAppend, ProcessDies
    <2> QED BY <2>1 DEF GetInv, IdleGet
<1>2. CASE Restart
    <2>1. pc = "down" /\ inflight' = inflight /\ getter' = getter
        BY <1>2 DEF Restart
    <2>2. inflight = {}
        BY <2>1 DEF StageInv, Stages
    <2>3. \A g \in Getters : getter[g].at = "idle"
        BY <2>1 DEF GetInv
    <2> QED BY <2>1, <2>2, <2>3 DEF GetInv
<1> QED BY <1>1, <1>2

(* The other gets notice nothing of the step of one. *)
LEMMA OtherGets ==
    ASSUME GetInv, NEW g \in Getters,
           UNCHANGED <<diskVars, seq, tables, doomed, mem, pc, inflight, timeVars>>,
           \A f \in Getters : f # g => getter'[f] = getter[f],
           pc # "down" /\ getter'[g].ts <= clock, Unmarked(g)' => GetOk(g)'
    PROVE  GetInv'
<1>1. ASSUME NEW f \in Getters, f # g, getter'[f].at # "idle", Unmarked(f)' PROVE GetOk(f)'
    <2>1. GetOk(f) /\ getter'[f] = getter[f]
        BY <1>1 DEF GetInv, Unmarked, timeVars, marks
    <2>2. UNCHANGED <<file, tables, mem, pc, inflight, clock, watermark, acked>>
        BY DEF diskVars, timeVars, marks
    <2>3. Wanted(f)' = Wanted(f) /\ Overtaken(f)' = Overtaken(f) /\ OnTables' = OnTables
          /\ ToRead(f)' = ToRead(f)
        BY <2>1, <2>2 DEF Wanted, Overtaken, OnTables, ToRead
    <2>4. Ahead(f)' = Ahead(f)
        BY <2>2, <2>3 DEF Ahead
    <2>5. Searching(f)' = Searching(f)
        BY <2>1, <2>2, <2>3, <2>4 DEF Searching, Tells
    <2> QED BY <2>1, <2>2, <2>3, <2>5 DEF GetOk
<1>2. ASSUME NEW f \in Getters, getter'[f].at # "idle"
      PROVE  pc' # "down" /\ getter'[f].ts <= clock'
    BY <1>2 DEF GetInv, timeVars
<1> QED BY <1>1, <1>2 DEF GetInv, timeVars, marks

(* A call finds the newest version in the memtable, or the tables tell it. *)
LEMMA CallGets ==
    ASSUME StageInv, OrderInv, VisibleInv, RefInv, GetInv, NEW g \in Getters, NEW k \in Keys,
           CallGet(g, k)
    PROVE  GetInv'
<1> DEFINE stamps == {v.ts : v \in acked} \cup {0}
           t == Max(stamps)
           hits == Hits(mem, k, t)
           W == Hits(acked, k, t)
<1>1. /\ pc # "down" /\ \A f \in Getters : f # g => getter'[f] = getter[f]
      /\ getter'[g] = [IdleGet EXCEPT !.key = k, !.ts = t,
                          !.at = IF hits = {} THEN "listing" ELSE "done", !.answer = Answer(hits)]
      /\ UNCHANGED <<diskVars, seq, tables, doomed, mem, pc, inflight, timeVars>>
    BY DEF CallGet, RefInv, tableVars
<1>2. /\ getter'[g].key = k /\ getter'[g].ts = t /\ getter'[g].answer = Answer(hits)
      /\ getter'[g].at = IF hits = {} THEN "listing" ELSE "done"
    BY <1>1 DEF IdleGet
<1>3. UNCHANGED <<file, tables, mem, pc, inflight, clock, watermark, acked>>
    BY <1>1 DEF diskVars, timeVars, marks
<1>4. /\ acked \in SUBSET Versions /\ mem \in SUBSET acked /\ OnTables \subseteq acked
      /\ Unique(acked) /\ clock \in Nat /\ \A v \in acked : v.ts <= clock /\ v.ts \in Nat
      /\ \A v \in inflight : v.ts \in Nat
    BY GetFacts DEF Versions
<1>5. stamps \in SUBSET (0..clock) /\ stamps # {}
    BY <1>4
<1>6. t \in stamps /\ \A y \in stamps : y <= t
    <2> HIDE DEF stamps
    <2> QED BY <1>4, <1>5, Greatest
<1>7. t \in Nat /\ t <= clock /\ \A v \in acked : v.ts <= t
    BY <1>4, <1>5, <1>6
<1> SUFFICES ASSUME Unmarked(g)' PROVE GetOk(g)'
    BY <1>1, <1>2, <1>7, OtherGets
<1>unmarked. k \notin disordered /\ k \notin exposed
    BY <1>1, <1>2 DEF Unmarked, timeVars, marks
<1>8. \A v \in inflight : v.key = k => v.ts > t
    <2> SUFFICES ASSUME NEW v \in inflight, v.key = k PROVE v.ts > t
        OBVIOUS
    <2>1. v.ts > 0 /\ \A u \in acked : u.ts < v.ts
        BY <1>unmarked DEF GetInv
    <2> QED BY <1>4, <1>6, <2>1
<1> HIDE DEF t, stamps
<1>9. W = Of(acked, k) /\ W \in SUBSET Versions /\ Unique(W) /\ \A v \in W : v.ts <= clock
    BY <1>4, <1>7 DEF Hits, Of, Unique
<1>10. Wanted(g)' = W
    BY <1>2, <1>3 DEF Wanted
<1>11. CASE hits # {}
    <2>1. PICK u \in hits : TRUE
        BY <1>11
    <2>2. u \in mem /\ u.key = k /\ u \in W
        BY <1>4, <2>1 DEF Hits
    <2> DEFINE n == NewestOf(W)
    <2>3. n \in W /\ \A v \in W : v.ts <= n.ts
        BY <1>4, <1>9, <2>2, NewestExists
    <2>4. n \in acked /\ n.key = k /\ u.ts <= n.ts /\ n.ts <= t
        BY <2>2, <2>3 DEF Hits
    <2>5. mem \in SUBSET Versions /\ Unique(acked \cup mem) /\ Closed(Of(mem, k), acked)
        BY <1>4, <1>unmarked DEF OrderInv, InOrder, Unique
    <2>6. n \in mem
        BY <1>4, <2>2, <2>4, <2>5, ClosedHoldsNewest
    <2>7. n \in hits /\ hits \in SUBSET W
        BY <1>4, <2>2, <2>4, <2>6 DEF Hits
    <2> HIDE DEF W, hits
    <2>8. Answer(hits) = Answer(W)
        BY <1>4, <1>9, <2>7, SameAnswer
    <2>9. GetOk(g)'
        BY <1>1, <1>2, <1>3, <1>8, <1>10, <1>11, <2>8 DEF GetOk
    <2> QED BY <2>9
<1>12. CASE hits = {}
    <2>1. Of(mem \cup OnTables, k) = Hits(OnTables, k, t)
        BY <1>4, <1>7, <1>12 DEF Of, Hits
    <2>2. ShowsOf(Hits(OnTables, k, t), W)
        <3> SUFFICES ASSUME W # {}
                     PROVE  IF Hits(OnTables, k, t) = {} THEN NewestOf(W).dead
                            ELSE NewestOf(W) \in Hits(OnTables, k, t)
            BY DEF ShowsOf
        <3>1. IF Hits(OnTables, k, t) = {} THEN NewestOf(W).dead
              ELSE NewestOf(W) \in mem \cup OnTables
            BY <1>1, <1>unmarked, <1>9, <2>1 DEF VisibleInv, Visible, Shows, ShowsOf, Of
        <3>2. NewestOf(W) \in W
            BY <1>4, <1>9, NewestExists
        <3>3. NewestOf(W) \in mem \cup OnTables => NewestOf(W) \in Hits(OnTables, k, t)
            BY <2>1, <3>2 DEF Hits, Of
        <3> QED BY <3>1, <3>3
    <2>3. OnTables' = OnTables
        BY <1>3 DEF OnTables
    <2>4. Tells(g, OnTables)'
        BY <1>2, <1>10, <2>2, <2>3 DEF Tells
    <2>5. getter'[g].answer = 0
        BY <1>2, <1>12 DEF Answer
    <2>6. Searching(g)'
        BY <1>2, <1>3, <1>12, <2>4, <2>5 DEF Searching
    <2>7. GetOk(g)'
        BY <1>1, <1>2, <1>3, <1>8, <1>12, <2>6 DEF GetOk
    <2> QED BY <2>7
<1> QED BY <1>11, <1>12

(* The next table a get asks is the newest of those it has not asked. *)
LEMMA NextAsked ==
    ASSUME StageInv, OrderInv, RefInv, NEW g \in Getters, getter[g].todo # {}
    PROVE  /\ Max(getter[g].todo) \in getter[g].todo
           /\ \A s \in getter[g].todo : s <= Max(getter[g].todo) /\ s \in Nat
<1> DEFINE todo == getter[g].todo
<1>1. todo \in SUBSET (0..MaxSeq) /\ MaxSeq \in Nat /\ todo # {}
    <2>1. getter[g] \in Gets /\ MaxSeq \in Nat
        BY GetFacts
    <2> QED BY <2>1 DEF Gets, Seqs
<1> HIDE DEF todo
<1>2. Max(todo) \in todo /\ \A s \in todo : s <= Max(todo)
    BY <1>1, Greatest
<1>3. \A s \in todo : s \in Nat
    BY <1>1
<1> QED BY <1>2, <1>3 DEF todo

(* The list a get starts with tells it what it should answer, and reading a table
   where it finds nothing takes nothing away; the first hit is the answer. *)
LEMMA ReadGets ==
    ASSUME StageInv, OrderInv, RefInv, GetInv, NEW g \in Getters,
           ListTables(g) \/ NothingFound(g) \/ Acquire(g) \/ ReadTable(g)
    PROVE  GetInv'
<1> DEFINE k == getter[g].key
           t == getter[g].ts
<1>1. /\ \A f \in Getters : f # g => getter'[f] = getter[f]
      /\ UNCHANGED <<diskVars, seq, tables, doomed, mem, pc, inflight, timeVars>>
      /\ getter[g].at \in {"listing", "tables", "reading"}
      /\ getter'[g].key = k /\ getter'[g].ts = t
    BY GetFacts DEF ListTables, NothingFound, Acquire, ReadTable, RefInv, tableVars, Gets
<1>2. UNCHANGED <<file, tables, mem, pc, inflight, clock, watermark, acked>>
    BY <1>1 DEF diskVars, timeVars, marks
<1>free. pc # "down" /\ t <= clock
    BY <1>1 DEF GetInv
<1> SUFFICES ASSUME Unmarked(g)' PROVE GetOk(g)'
    BY <1>1, <1>free, OtherGets
<1>unmarked. Unmarked(g) /\ k \notin disordered
    BY <1>1 DEF Unmarked, timeVars, marks
<1>3. (\A v \in inflight : v.key = k => v.ts > t) /\ Searching(g)
    BY <1>1, <1>unmarked DEF GetInv, GetOk
<1>4. Wanted(g)' = Wanted(g) /\ Overtaken(g)' = Overtaken(g) /\ OnTables' = OnTables
    BY <1>1, <1>2 DEF Wanted, Overtaken, OnTables
<1>5. \A S : Tells(g, S)' = Tells(g, S)
    BY <1>1, <1>4 DEF Tells
<1>6. getter[g] \in Gets /\ DOMAIN getter = Getters
    BY GetFacts DEF RefInv
<1>7. /\ acked \in SUBSET Versions /\ Unique(acked) /\ OnTables \subseteq acked
      /\ clock \in Nat /\ (\A v \in acked : v.ts <= clock) /\ k \in Keys /\ t \in Nat
      /\ tables \subseteq disk
    BY GetFacts
<1>8. CASE ListTables(g)
    <2>1. getter'[g] = [getter[g] EXCEPT !.at = "tables", !.todo = tables]
        BY <1>6, <1>8 DEF ListTables
    <2>2. /\ getter'[g].at = "tables" /\ getter'[g].todo = tables
          /\ getter'[g].answer = getter[g].answer
        BY <1>6, <2>1 DEF Gets
    <2>3. ToRead(g)' = tables
        BY <2>2 DEF ToRead
    <2>4. Ahead(g)' = OnTables
        BY <1>2, <2>3 DEF Ahead, OnTables
    <2>5. \A s, u \in tables : s < u => Closed(Of(file[u], k), file[s])
        BY <1>7, <1>unmarked DEF OrderInv, InOrder
    <2>6. Searching(g)'
        BY <1>1, <1>2, <1>3, <1>4, <1>5, <1>7, <2>2, <2>3, <2>4, <2>5 DEF Searching
    <2> QED BY <1>1, <1>2, <1>3, <2>2, <2>6 DEF GetOk
<1>9. CASE NothingFound(g)
    <2>1. getter'[g] = [getter[g] EXCEPT !.at = "done"] /\ getter[g].todo = {}
          /\ getter[g].at = "tables"
        BY <1>6, <1>9 DEF NothingFound
    <2>2. getter'[g].at = "done" /\ getter'[g].answer = 0
        BY <1>3, <1>6, <2>1 DEF Gets, Searching
    <2>3. Hits(Ahead(g), k, t) = {} /\ Tells(g, Ahead(g))
        BY <1>3, <2>1 DEF Searching, Ahead, ToRead, Hits
    <2>4. 0 = Answer(Wanted(g)) \/ Overtaken(g)
        BY <2>3 DEF Tells, ShowsOf, Answer
    <2> QED BY <1>1, <1>2, <1>3, <1>4, <2>2, <2>4 DEF GetOk
<1>10. CASE Acquire(g)
    <2> DEFINE s == Max(getter[g].todo)
    <2>1. getter[g].at = "tables" /\ getter[g].todo # {}
        BY <1>10 DEF Acquire
    <2>2. s \in getter[g].todo /\ \A r \in getter[g].todo : r <= s /\ r \in Nat
        BY <2>1, NextAsked
    <2> HIDE DEF s
    <2>3. CASE refs[s] = 0
        <3>1. getter'[g] = [getter[g] EXCEPT !.at = "listing", !.todo = {}]
            BY <1>6, <1>10, <2>3 DEF Acquire, s
        <3>2. getter'[g].at = "listing" /\ getter'[g].answer = getter[g].answer
            BY <1>6, <3>1 DEF Gets
        <3>3. Searching(g)'
            BY <1>1, <1>2, <1>3, <1>4, <1>5, <3>2 DEF Searching
        <3> QED BY <1>1, <1>2, <1>3, <3>2, <3>3 DEF GetOk
    <2>4. CASE refs[s] # 0
        <3>1. getter'[g] = [getter[g] EXCEPT !.at = "reading", !.using = s, !.todo = @ \ {s}]
            BY <1>6, <1>10, <2>4 DEF Acquire, s
        <3>2. /\ getter'[g].at = "reading" /\ getter'[g].answer = getter[g].answer
              /\ getter'[g].using = s /\ getter'[g].todo = getter[g].todo \ {s}
            BY <1>6, <3>1 DEF Gets
        <3>3. ToRead(g) = getter[g].todo /\ ToRead(g)' = ToRead(g)
            BY <2>1, <2>2, <3>2 DEF ToRead
        <3>4. Ahead(g)' = Ahead(g)
            BY <1>2, <3>3 DEF Ahead
        <3>5. \A r \in getter'[g].todo : r < s
            BY <2>2, <3>2
        <3>6. Searching(g)'
            BY <1>1, <1>2, <1>3, <1>4, <1>5, <2>1, <3>2, <3>3, <3>4, <3>5 DEF Searching
        <3> QED BY <1>1, <1>2, <1>3, <3>2, <3>6 DEF GetOk
    <2> QED BY <2>3, <2>4
<1>11. CASE ReadTable(g)
    <2> DEFINE s == getter[g].using
               hits == Hits(file[s], k, t)
               R == ToRead(g)
    <2>1. getter[g].at = "reading" /\ R = getter[g].todo \cup {s}
        BY <1>11 DEF ReadTable, ToRead
    <2>2. getter'[g] = [getter[g] EXCEPT !.using = 0, !.answer = Answer(hits),
                              !.at = IF hits = {} THEN "tables" ELSE "done"]
        BY <1>6, <1>11 DEF ReadTable
    <2>3. /\ getter'[g].at = IF hits = {} THEN "tables" ELSE "done"
          /\ getter'[g].answer = Answer(hits) /\ getter'[g].todo = getter[g].todo
        BY <1>6, <2>2 DEF Gets
    <2>4. /\ Ahead(g) \subseteq acked /\ Tells(g, Ahead(g))
          /\ \A r, u \in R : r < u => Closed(Of(file[u], k), file[r])
          /\ \A r \in getter[g].todo : r < s
        BY <1>3, <2>1 DEF Searching
    <2>5. CASE hits = {}
        <3>1. ToRead(g)' = getter[g].todo
            BY <2>3, <2>5 DEF ToRead
        <3>2. Ahead(g)' = UNION {file[r] : r \in getter[g].todo}
            BY <1>2, <3>1 DEF Ahead
        <3>3. Ahead(g) = Ahead(g)' \cup file[s]
            BY <2>1, <3>2 DEF Ahead
        <3>4. Hits(Ahead(g)', k, t) = Hits(Ahead(g), k, t)
            BY <2>5, <3>3 DEF Hits
        <3>5. Tells(g, Ahead(g))'
            BY <1>1, <1>4, <2>4, <3>4 DEF Tells
        <3>6. getter'[g].answer = 0 /\ getter'[g].at = "tables"
            BY <2>3, <2>5 DEF Answer
        <3>7. \A r, u \in ToRead(g)' : r < u => Closed(Of(file[u], k), file[r])
            BY <2>1, <2>4, <3>1
        <3>8. Ahead(g)' \subseteq acked'
            BY <1>2, <2>4, <3>3
        <3>9. Searching(g)'
            BY <1>1, <1>2, <1>3, <1>4, <1>5, <3>5, <3>6, <3>7, <3>8 DEF Searching
        <3> QED BY <1>1, <1>2, <1>3, <3>6, <3>9 DEF GetOk
    <2>6. CASE hits # {}
        <3>1. ASSUME ~Overtaken(g) PROVE Answer(hits) = Answer(Wanted(g))
            <4>1. ShowsOf(Hits(UNION {file[r] : r \in R}, k, t), Hits(acked, k, t))
                BY <2>4, <3>1 DEF Tells, Ahead, Wanted
            <4>2. \A r \in R : r # s => Closed(Of(file[s], k), file[r])
                BY <2>1, <2>4
            <4>3. s \in R /\ UNION {file[r] : r \in R} \subseteq acked
                BY <2>1, <2>4 DEF Ahead
            <4> HIDE DEF s, R, k, t
            <4>4. Hits(file[s], k, t) # {}
                BY <2>6
            <4>5. Answer(Hits(file[s], k, t)) = Answer(Hits(acked, k, t))
                BY <1>7, <4>1, <4>2, <4>3, <4>4, FirstShows
            <4> QED BY <4>5 DEF Wanted, k, t
        <3>2. getter'[g].at = "done"
            BY <2>3, <2>6
        <3> QED BY <1>1, <1>2, <1>3, <1>4, <2>3, <3>1, <3>2 DEF GetOk
    <2> QED BY <2>5, <2>6
<1> QED BY <1>8, <1>9, <1>10, <1>11

(* Every step keeps what the gets should answer. *)
LEMMA GetNext ==
    ASSUME StageInv, OrderInv, VisibleInv, RefInv, StageInv', GetInv,
           [StoreNext]_storeVars
    PROVE  GetInv'
<1>1. ASSUME UNCHANGED storeVars PROVE GetInv'
    <2>1. UNCHANGED <<file, tables, mem, pc, inflight, clock, watermark, acked, getter,
                      disordered, exposed>>
        BY <1>1 DEF storeVars, diskVars, tableVars, timeVars, marks
    <2>2. ASSUME NEW g \in Getters, getter'[g].at # "idle", Unmarked(g)' PROVE GetOk(g)'
        <3>1. GetOk(g)
            BY <2>1, <2>2 DEF GetInv, Unmarked
        <3>2. Wanted(g)' = Wanted(g) /\ Overtaken(g)' = Overtaken(g) /\ OnTables' = OnTables
              /\ ToRead(g)' = ToRead(g)
            BY <2>1 DEF Wanted, Overtaken, OnTables, ToRead
        <3>3. Ahead(g)' = Ahead(g)
            BY <2>1, <3>2 DEF Ahead
        <3>4. Searching(g)' = Searching(g)
            BY <2>1, <3>2, <3>3 DEF Searching, Tells
        <3> QED BY <2>1, <3>1, <3>2, <3>4 DEF GetOk
    <2> QED BY <2>1, <2>2 DEF GetInv
<1> QED BY <1>1, WriteGets, FlushGets, CompactGets, CrashGets, CallGets, ReadGets
        DEF StoreNext

(* MVCCStore.get beside writes, flushes, compactions, crashes and restarts: it
   answers with the newest version at its timestamp, or that version has been
   overwritten since and a compaction was entitled to drop it; not of the keys
   that NewestVisible leaves out. *)
THEOREM GetsAreCurrentHolds ==
    ASSUME Keys # {}, IsFiniteSet(Getters)
    PROVE  StoreSpec => []GetsAreCurrent
<1> DEFINE I == StageInv /\ DurableInv /\ OrderInv /\ VisibleInv /\ RefInv /\ GetInv
<1>1. StoreInit => I
    <2>1. StoreInit => GetInv
        BY DEF StoreInit, GetInv, IdleGet
    <2> QED BY <2>1, StageInit, DurableInit, OrderInit, VisibleInit, RefInit
<1>2. I /\ [StoreNext]_storeVars => I'
    <2> SUFFICES ASSUME I, [StoreNext]_storeVars PROVE I'
        OBVIOUS
    <2>1. StageInv' /\ DurableInv' /\ OrderInv' /\ VisibleInv' /\ RefInv'
        BY StageNext, DurableNext, OrderNext, VisibleNext, RefNext
    <2> QED BY <2>1, GetNext
<1>3. I => GetsAreCurrent
    BY DEF GetInv, GetOk, GetsAreCurrent, Wanted, Overtaken, Unmarked
<1> QED BY <1>1, <1>2, <1>3, PTL DEF StoreSpec
=============================================================================
