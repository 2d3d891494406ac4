----------------------------- MODULE MVCCStore -----------------------------
(***************************************************************************)
(* The storage engine of a node (storage/mvcc.py, engine/wal.py,           *)
(* engine/memtable.py, engine/sstable.py): a write goes to the log and the *)
(* memtable, a flush turns the memtable into a table file and checkpoints  *)
(* the log, a compaction merges the table files, a restart loads the files *)
(* and replays the log.  Writers, flush and compaction exclude each other  *)
(* through the store's lock, so `pc' is where the holder of the lock       *)
(* stands; gets take no lock and interleave with all of them, and the      *)
(* process may die between any two steps.                                  *)
(*                                                                         *)
(* The readers in self.sstables are always ordered from the newest file to *)
(* the oldest (insertion at 0, reverse sort at start), so the list is the  *)
(* set of their numbers.  Values are not modelled: a version is its key,   *)
(* its timestamp and whether it is a tombstone or a value of no bytes.     *)
(***************************************************************************)
EXTENDS Naturals, Sequences, FiniteSetsExt

CONSTANTS
    Keys,                \* keys
    Getters,             \* threads that call get
    Deletes,             \* TRUE: tombstones are written too
    Empties,             \* TRUE: values of no bytes are written too
    MaxTs,               \* no timestamp beyond this one
    MaxSeq,              \* no table number beyond this one
    MaxCrashes           \* restarts

ASSUME StoreFlagsAssumption == {Deletes, Empties} \subseteq BOOLEAN
ASSUME StoreBoundsAssumption == {MaxTs, MaxSeq, MaxCrashes} \subseteq Nat

VARIABLES
    wal,       \* the log segments, oldest first
    file,      \* the contents of every table file ever written
    disk,      \* the numbers of the table files that are linked
    seq,       \* MVCCStore.sstable_seq
    mem,       \* MemTable.entries
    tables,    \* MVCCStore.sstables
    refs,      \* SSTableReader._refs of the reader of each table, 0 when closed
    pc,        \* the holder of the store's lock, or "down"
    inflight,  \* the version a writer has logged and not yet inserted
    doomed,    \* tables a compaction has still to unlink
    clock,     \* the newest timestamp of a version logged
    watermark, \* the highest watermark a compaction has used
    acked,     \* versions whose put or delete returned, or that a restart found
    crashes,   \* restarts so far
    getter,    \* the get calls
    behind,    \* history: versions logged behind a torn record and not yet flushed
    disordered,\* history: keys with a version logged behind a torn record, or after a
               \* version with a later timestamp
    exposed    \* history: keys that were gone, and of which a crash left old versions

diskVars == <<wal, file, disk>>
tableVars == <<seq, tables, refs, doomed>>
marks == <<behind, disordered, exposed>>
timeVars == <<clock, watermark, acked, crashes, marks>>
storeVars == <<diskVars, tableVars, mem, pc, inflight, timeVars, getter>>

Versions == [key : Keys, ts : Nat, dead : BOOLEAN, empty : BOOLEAN]
Seqs == 1..MaxSeq
EmptySegment == [recs |-> {}, torn |-> FALSE]
IdleGet == [at |-> "idle", key |-> CHOOSE k \in Keys : TRUE, ts |-> 0, todo |-> {},
            using |-> 0, answer |-> 0]

-----------------------------------------------------------------------------
(* Versions *)

Hits(vs, k, t) == {v \in vs : v.key = k /\ v.ts <= t}
NewestOf(vs) == CHOOSE v \in vs : \A u \in vs : u.ts <= v.ts

(* The answer to a get, as the timestamp of the version whose value it is; 0
   for None. *)
Answer(vs) == IF vs = {} \/ NewestOf(vs).dead THEN 0 ELSE NewestOf(vs).ts

(* Only versions above the watermark survive, the newest one of a key too. *)
FaultyKept(vs, w) == {v \in vs : v.ts >= w}

(* compact: the newest version of a key stays unless it is a tombstone below
   the watermark, the others stay if they are not below it. *)
Kept(vs, w) ==
    {v \in vs : IF v = NewestOf({u \in vs : u.key = v.key})
                THEN ~(v.dead /\ v.ts < w)
                ELSE v.ts >= w}

(* append: the record goes behind whatever the segment ends with, and replay
   does not get past a torn record. *)
Appended(segment, v) ==
    IF segment.torn THEN segment ELSE [segment EXCEPT !.recs = @ \cup {v}]
LogWith(v) == [wal EXCEPT ![Len(wal)] = Appended(@, v)]

(* All records of the log *)
Records == UNION {wal[i].recs : i \in DOMAIN wal}

(* replay stops for good at the first torn record. *)
Replayed ==
    UNION {wal[i].recs : i \in {j \in DOMAIN wal : \A h \in 1..(j - 1) : ~wal[h].torn}}

OnTables == UNION {file[s] : s \in tables}

StoreTypeOK ==
    /\ wal \in Seq([recs : SUBSET Versions, torn : BOOLEAN]) /\ wal # <<>>
    /\ file \in [Seqs -> SUBSET Versions]
    /\ {disk, tables, doomed} \subseteq SUBSET Seqs
    /\ seq \in 0..MaxSeq
    /\ {mem, inflight, acked, behind} \subseteq SUBSET Versions
    /\ {disordered, exposed} \subseteq SUBSET Keys
    /\ refs \in [Seqs -> Nat]
    /\ pc \in {"down", "idle", "logged", "written", "inserted", "cleared", "rotated",
               "merged", "unlinking"}
    /\ clock \in 0..MaxTs /\ watermark \in 0..(MaxTs + 1) /\ crashes \in 0..MaxCrashes
    /\ getter \in [Getters -> [at : {"idle", "listing", "tables", "reading", "done"},
                               key : Keys, ts : 0..MaxTs, todo : SUBSET Seqs,
                               using : 0..MaxSeq, answer : 0..MaxTs]]

StoreInit ==
    /\ wal = <<EmptySegment>>
    /\ file = [s \in Seqs |-> {}]
    /\ disk = {} /\ tables = {} /\ doomed = {}
    /\ seq = 0
    /\ mem = {} /\ inflight = {} /\ acked = {}
    /\ behind = {} /\ disordered = {} /\ exposed = {}
    /\ refs = [s \in Seqs |-> 0]
    /\ pc = "idle"
    /\ clock = 0 /\ watermark = 0 /\ crashes = 0
    /\ getter = [g \in Getters |-> IdleGet]

-----------------------------------------------------------------------------
(* put and delete *)

(* Timestamps are unique.  A writer reads the clock, or gets its timestamp from
   the transaction manager, before it takes the lock: others may overtake it. *)
Timestamps == {t \in 1..MaxTs : \A v \in acked \cup Records : v.ts # t}

(* wal.append *)
Torn == \E i \in DOMAIN wal : wal[i].torn
Log(v) ==
    /\ pc = "idle"
    /\ wal' = LogWith(v)
    /\ inflight' = {v}
    /\ clock' = Max({clock, v.ts})
    /\ behind' = IF Torn THEN behind \cup {v} ELSE behind
    /\ disordered' = IF Torn \/ v.ts <= clock THEN disordered \cup {v.key} ELSE disordered
    /\ pc' = "logged"
    /\ UNCHANGED <<file, disk, tableVars, mem, watermark, acked, crashes, exposed, getter>>

(* memtable.put or delete, and the call returns. *)
Insert ==
    /\ pc = "logged"
    /\ mem' = mem \cup inflight
    /\ acked' = acked \cup inflight
    /\ inflight' = {}
    /\ pc' = "idle"
    /\ UNCHANGED <<diskVars, tableVars, clock, watermark, crashes, marks, getter>>

-----------------------------------------------------------------------------
(* flush *)

WriteTable ==
    /\ pc = "idle"
    /\ mem # {}
    /\ seq < MaxSeq
    /\ seq' = seq + 1
    /\ file' = [file EXCEPT ![seq + 1] = mem]
    /\ disk' = disk \cup {seq + 1}
    /\ pc' = "written"
    /\ UNCHANGED <<wal, tables, refs, doomed, mem, inflight, timeVars, getter>>

InsertTable ==
    /\ pc = "written"
    /\ tables' = tables \cup {seq}
    /\ refs' = [refs EXCEPT ![seq] = 1]
    /\ pc' = "inserted"
    /\ UNCHANGED <<diskVars, seq, doomed, mem, inflight, timeVars, getter>>

ClearMemtable ==
    /\ pc = "inserted"
    /\ mem' = {}
    /\ pc' = "cleared"
    /\ UNCHANGED <<diskVars, tableVars, inflight, timeVars, getter>>

(* checkpoint: a new segment, then the old ones go one by one, oldest first. *)
Rotate ==
    /\ pc = "cleared"
    /\ wal' = Append(wal, EmptySegment)
    /\ pc' = "rotated"
    /\ UNCHANGED <<file, disk, tableVars, mem, inflight, timeVars, getter>>

(* The newest of the old segments goes first. *)
FaultyDropSegment ==
    /\ pc = "rotated"
    /\ wal' = SubSeq(wal, 1, Len(wal) - 2) \o <<wal[Len(wal)]>>
    /\ pc' = IF Len(wal) = 2 THEN "idle" ELSE "rotated"
    /\ behind' = IF Len(wal) = 2 THEN behind \ file[seq] ELSE behind
    /\ UNCHANGED <<file, disk, tableVars, mem, inflight, clock, watermark, acked, crashes,
                   disordered, exposed, getter>>

DropSegment ==
    /\ pc = "rotated"
    /\ wal' = Tail(wal)
    /\ pc' = IF Len(wal) = 2 THEN "idle" ELSE "rotated"
    /\ behind' = IF Len(wal) = 2 THEN behind \ file[seq] ELSE behind
    /\ UNCHANGED <<file, disk, tableVars, mem, inflight, clock, watermark, acked, crashes,
                   disordered, exposed, getter>>

-----------------------------------------------------------------------------
(* compact *)

Merge ==
    /\ pc = "idle"
    /\ Cardinality(tables) > 1
    /\ seq < MaxSeq
    /\ \E w \in watermark..(clock + 1) :
          /\ watermark' = w
          /\ file' = [file EXCEPT ![seq + 1] = Kept(OnTables, w)]
    /\ seq' = seq + 1
    /\ disk' = disk \cup {seq + 1}
    /\ pc' = "merged"
    /\ UNCHANGED <<wal, tables, refs, doomed, mem, inflight, clock, acked, crashes, marks, getter>>

SwapTables ==
    /\ pc = "merged"
    /\ doomed' = tables
    /\ tables' = {seq}
    /\ refs' = [refs EXCEPT ![seq] = 1]
    /\ pc' = "unlinking"
    /\ UNCHANGED <<diskVars, seq, mem, inflight, timeVars, getter>>

(* The owner's reference is dropped twice. *)
FaultyUnlinkTable ==
    LET s == Max(doomed) IN
    /\ pc = "unlinking"
    /\ disk' = disk \ {s}
    /\ refs' = [refs EXCEPT ![s] = @ - 2]
    /\ doomed' = doomed \ {s}
    /\ pc' = IF doomed = {s} THEN "idle" ELSE "unlinking"
    /\ UNCHANGED <<wal, file, seq, tables, mem, inflight, timeVars, getter>>

(* The old tables are unlinked and closed from the newest to the oldest. *)
UnlinkTable ==
    LET s == Max(doomed) IN
    /\ pc = "unlinking"
    /\ disk' = disk \ {s}
    /\ refs' = [refs EXCEPT ![s] = @ - 1]
    /\ doomed' = doomed \ {s}
    /\ pc' = IF doomed = {s} THEN "idle" ELSE "unlinking"
    /\ UNCHANGED <<wal, file, seq, tables, mem, inflight, timeVars, getter>>

-----------------------------------------------------------------------------
(* Crash and restart *)

ProcessDies ==
    /\ crashes < MaxCrashes
    /\ crashes' = crashes + 1
    /\ mem' = {} /\ inflight' = {} /\ doomed' = {} /\ tables' = {} /\ seq' = 0
    /\ refs' = [s \in Seqs |-> 0]
    /\ pc' = "down"
    /\ getter' = [g \in Getters |-> IdleGet]
    /\ UNCHANGED <<file, clock, watermark, acked, behind, disordered>>

(* The keys of which only old tables hold anything: the merged one holds neither a
   version of them nor a tombstone. *)
Reappearing ==
    {v.key : v \in UNION {file[s] : s \in doomed}} \ {v.key : v \in mem \cup OnTables}

(* The rename of the last table was not made durable. *)
FaultyCrash ==
    /\ pc # "down"
    /\ ProcessDies
    /\ disk' = disk \ {seq}
    /\ exposed' = exposed \cup Reappearing
    /\ UNCHANGED wal

Crash ==
    /\ pc # "down"
    /\ ProcessDies
    /\ exposed' = exposed \cup Reappearing
    /\ UNCHANGED <<wal, disk>>

(* The process dies inside append: nothing of the record is in the file, or a
   part of it. *)
CrashInAppend ==
    /\ pc = "idle"
    /\ ProcessDies
    /\ \E part \in BOOLEAN : wal' = [wal EXCEPT ![Len(wal)].torn = @ \/ part]
    /\ UNCHANGED <<disk, exposed>>

(* MVCCStore.__init__: load the tables, reopen the last segment for appending,
   replay the log into the memtable.  A value of no bytes comes back from the log
   as None, whose length memtable.put cannot take: the store does not start. *)
Restart ==
    /\ pc = "down"
    /\ \A v \in Replayed : ~v.empty
    /\ tables' = disk
    /\ refs' = [s \in Seqs |-> IF s \in disk THEN 1 ELSE 0]
    /\ seq' = Max(disk \cup {0})
    /\ mem' = Replayed
    /\ acked' = acked \cup Replayed
    /\ pc' = "idle"
    /\ UNCHANGED <<diskVars, doomed, inflight, clock, watermark, crashes, marks, getter>>

-----------------------------------------------------------------------------
(* get, at the timestamp of the newest write that has returned *)

CallGet(g, k) ==
    LET t == Max({v.ts : v \in acked} \cup {0}) IN
    /\ pc # "down"
    /\ getter[g].at = "idle"
    /\ getter' = [getter EXCEPT ![g] =
          [IdleGet EXCEPT !.key = k, !.ts = t,
                          !.at = IF Hits(mem, k, t) = {} THEN "listing" ELSE "done",
                          !.answer = Answer(Hits(mem, k, t))]]
    /\ UNCHANGED <<diskVars, tableVars, mem, pc, inflight, timeVars>>

ListTables(g) ==
    /\ getter[g].at = "listing"
    /\ getter' = [getter EXCEPT ![g].at = "tables", ![g].todo = tables]
    /\ UNCHANGED <<diskVars, tableVars, mem, pc, inflight, timeVars>>

NothingFound(g) ==
    /\ getter[g].at = "tables"
    /\ getter[g].todo = {}
    /\ getter' = [getter EXCEPT ![g].at = "done"]
    /\ UNCHANGED <<diskVars, tableVars, mem, pc, inflight, timeVars>>

(* A closed table is passed over instead of starting again. *)
FaultyAcquire(g) ==
    LET s == Max(getter[g].todo) IN
    /\ getter[g].at = "tables"
    /\ getter[g].todo # {}
    /\ getter' = [getter EXCEPT ![g].todo = @ \ {s},
                                ![g].at = IF refs[s] = 0 THEN "tables" ELSE "reading",
                                ![g].using = IF refs[s] = 0 THEN 0 ELSE s]
    /\ refs' = IF refs[s] = 0 THEN refs ELSE [refs EXCEPT ![s] = @ + 1]
    /\ UNCHANGED <<diskVars, seq, tables, doomed, mem, pc, inflight, timeVars>>

(* acquire of the newest table not yet asked; if it is closed the get starts
   again from a new list. *)
Acquire(g) ==
    LET s == Max(getter[g].todo) IN
    /\ getter[g].at = "tables"
    /\ getter[g].todo # {}
    /\ IF refs[s] = 0
       THEN /\ getter' = [getter EXCEPT ![g].at = "listing", ![g].todo = {}]
            /\ UNCHANGED refs
       ELSE /\ getter' = [getter EXCEPT ![g].at = "reading", ![g].using = s,
                                        ![g].todo = @ \ {s}]
            /\ refs' = [refs EXCEPT ![s] = @ + 1]
    /\ UNCHANGED <<diskVars, seq, tables, doomed, mem, pc, inflight, timeVars>>

(* The reference is kept when the key is found. *)
FaultyReadTable(g) ==
    LET s == getter[g].using
        hits == Hits(file[s], getter[g].key, getter[g].ts)
    IN
    /\ getter[g].at = "reading"
    /\ getter' = [getter EXCEPT ![g].using = 0, ![g].answer = Answer(hits),
                                ![g].at = IF hits = {} THEN "tables" ELSE "done"]
    /\ refs' = IF hits = {} THEN [refs EXCEPT ![s] = @ - 1] ELSE refs
    /\ UNCHANGED <<diskVars, seq, tables, doomed, mem, pc, inflight, timeVars>>

(* Read the table and release it; a version found ends the get. *)
ReadTable(g) ==
    LET s == getter[g].using
        hits == Hits(file[s], getter[g].key, getter[g].ts)
    IN
    /\ getter[g].at = "reading"
    /\ getter' = [getter EXCEPT ![g].using = 0, ![g].answer = Answer(hits),
                                ![g].at = IF hits = {} THEN "tables" ELSE "done"]
    /\ refs' = [refs EXCEPT ![s] = @ - 1]
    /\ UNCHANGED <<diskVars, seq, tables, doomed, mem, pc, inflight, timeVars>>

-----------------------------------------------------------------------------
Write ==
    \E k \in Keys, t \in Timestamps, d \in {FALSE, Deletes}, e \in {FALSE, Empties} :
        /\ ~(d /\ e)
        /\ Log([key |-> k, ts |-> t, dead |-> d, empty |-> e])

StoreNext ==
    \/ Write \/ Insert
    \/ WriteTable \/ InsertTable \/ ClearMemtable \/ Rotate \/ DropSegment
    \/ Merge \/ SwapTables \/ UnlinkTable
    \/ Crash \/ CrashInAppend \/ Restart
    \/ \E g \in Getters :
          \/ \E k \in Keys : CallGet(g, k)
          \/ ListTables(g) \/ NothingFound(g) \/ Acquire(g) \/ ReadTable(g)

StoreSpec == StoreInit /\ [][StoreNext]_storeVars

-----------------------------------------------------------------------------
(* Properties *)

(* These versions are in the log or in a linked table, where a restart finds them,
   but for what a compaction was entitled to drop. *)
Stored(vs) ==
    \A v \in vs : v \in Replayed \cup UNION {file[s] : s \in disk} \/ v.ts < watermark

(* No write that returned is lost, unless its record is behind a torn one ("Write
   MemTable to a new SSTable, THEN clear it.  Never drops data.", flush). *)
Durable == Stored(acked \ behind)

(* The same of every write: "if the server crashes, we can replay the WAL to recover
   all committed writes" (wal.py).  It does not hold: the log is opened for appending
   behind a torn record. *)
NothingLost == Stored(acked)

(* The store can start again.  It cannot when the log holds a value of no bytes. *)
Restartable == pc = "down" => \A v \in Replayed : ~v.empty

(* A running node shows the newest write of these keys. *)
Shown(keys) ==
    pc # "down" => \A k \in keys :
        Answer(Hits(mem \cup OnTables, k, clock)) = Answer(Hits(acked, k, clock))

(* No flush, compaction, crash or restart hides the newest write of a key or brings
   a deleted key back, unless writes of that key were overtaken or logged behind a
   torn record, or a crash between two unlinks left what the merged table has
   dropped. *)
NewestVisible == Shown(Keys \ (disordered \cup exposed))

(* The same whenever the process dies.  It does not hold: tables are unlinked from
   the newest to the oldest, so that a tombstone goes before what it hides. *)
DeletedStaysDeleted == Shown(Keys \ disordered)

(* scan merges the memtable and every table. *)
Scanned(k, t) == Answer(Hits(mem \cup OnTables, k, t))

(* get, which asks the memtable first and then one table after the other, finds
   the version that scan finds by merging them all, of these keys. *)
Agree(keys) ==
    pc # "down" => \A k \in keys, t \in 0..clock :
        LET holding == {s \in tables : Hits(file[s], k, t) # {}}
            first == IF Hits(mem, k, t) # {} THEN Hits(mem, k, t)
                     ELSE IF holding = {} THEN {} ELSE Hits(file[Max(holding)], k, t)
        IN Answer(first) = Scanned(k, t)

(* get and scan agree on every key none of whose writes was overtaken, or logged
   behind a torn record. *)
GetAgreesWithScan == Agree(Keys \ disordered)

(* The same of every key: "Reads merge MemTable first, then SSTables
   newest-to-oldest" (mvcc.py).  It does not hold: a write that was overtaken is in
   a newer table than the write that overtook it. *)
AlwaysAgree == Agree(Keys)

(* A get that runs beside writes, flushes, compactions, crashes and restarts answers
   with the newest version at its timestamp; only a version that was overwritten
   meanwhile may be missed, once compaction was entitled to drop it.  Keys as in
   NewestVisible. *)
GetsAreCurrent ==
    \A g \in Getters : getter[g].at = "done" /\ getter[g].key \notin disordered \cup exposed =>
        LET k == getter[g].key
            right == Hits(acked, k, getter[g].ts)
        IN  \/ getter[g].answer = Answer(right)
            \/ /\ right # {} /\ NewestOf(right).ts < watermark
               /\ \E v \in acked : v.key = k /\ v.ts > getter[g].ts

(* Reference counts are exact: a table's file stays open while the store lists
   it or a get reads it, and is closed when neither does. *)
RefsExact ==
    \A s \in Seqs :
        refs[s] = Cardinality({g \in Getters : getter[g].using = s})
                  + IF s \in tables \cup doomed THEN 1 ELSE 0
=============================================================================
