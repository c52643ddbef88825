------------------------------- MODULE LsmTree -------------------------------
(***************************************************************************)
(* The LSM tree of one table: writes into the active memtable, rotation    *)
(* into the list of immutable memtables, flush of the oldest immutable     *)
(* memtable into a new level-0 sorted run, and the leveled compaction of   *)
(* all level-0 runs with the level-1 run.  Flush and compaction write      *)
(* their SSTables with CompactionJob::Run (LsmRecords!JobRun), install     *)
(* them with Version::Append, and lookups go through SuperVersion::Get     *)
(* (LsmRead).                                                              *)
(*                                                                         *)
(* The writer, the flush and the compaction are separate threads in the    *)
(* engine; every installation is one atomic SuperVersion swap, so each of  *)
(* them is one step here, and a lookup or a scan reads one state.  Scans  *)
(* go through SuperVersionIterator over the memtables and the runs, whose  *)
(* SSTables are read through the block-level reader (MergeIter).           *)
(***************************************************************************)
EXTENDS MergeIter

CONSTANTS
  MaxSeq,         \* bound on the number of writes (the last seq allocated)
  MaxImms,        \* bound on the number of immutable memtables waiting
  Level0Trigger,  \* level0_compaction_trigger_
  NoValue         \* what the abstract store holds for an absent key

ASSUME MaxSeq \in Nat /\ MaxImms \in Nat \ {0} /\ Level0Trigger \in Nat

VARIABLES
  seq,     \* the sequence number of the last write
  mem,     \* the active memtable: a set of records
  imms,    \* immutable memtables, newest first
  levels,  \* the version: levels[1] is level 0; each level oldest run first
  fileids, \* the file number of every SSTable of levels, in the same shape
  nextfile \* the file-name generator's counter

vars == <<seq, mem, imms, levels, fileids, nextfile>>

AllRecords ==
  mem \cup UNION {imms[i] : i \in DOMAIN imms}
      \cup UNION {RunRecords(run) : run \in UNION {Range(l) : l \in Range(levels)}}

\* Mutant: the run is inserted at the front of the level (oldest position).
AppendRunFront(lv, id, run) ==
  LET grown == lv \o [i \in 1..(id + 1 - Len(lv)) |-> <<>>]
  IN [grown EXCEPT ![id + 1] = <<run>> \o @]

(***************************************************************************)
(* Version::Append(level_id, run): missing levels up to level_id are       *)
(* created empty, then Level::Append pushes the run at the back.           *)
(***************************************************************************)
AppendRun(lv, id, run) ==
  LET grown == lv \o [i \in 1..(id + 1 - Len(lv)) |-> <<>>]
  IN [grown EXCEPT ![id + 1] = Append(@, run)]

(* LeveledCompactionPicker::Get, level-0 branch: compact level 0 into      *)
(* level 1 when level 0 holds more runs than the trigger.                  *)
PickLevel0(lv) == Len(lv) > 0 /\ Len(lv[1]) > Level0Trigger

(* The file numbers of n new SSTables: file_gen_->Generate() once per      *)
(* SSTable CompactionJob::Run writes, in the order it writes them.         *)
NewFileIds(n) == [i \in 1..n |-> nextfile + i - 1]

-----------------------------------------------------------------------------
(* Put and Delete (DBImpl, not under src/): the writer allocates the next  *)
(* sequence number and inserts the record into the active memtable.        *)
Put(k) ==
  /\ seq < MaxSeq
  /\ seq' = seq + 1
  /\ mem' = mem \cup {Record(k, seq + 1, Value)}
  /\ UNCHANGED <<imms, levels, fileids, nextfile>>

Delete(k) ==
  /\ seq < MaxSeq
  /\ seq' = seq + 1
  /\ mem' = mem \cup {Record(k, seq + 1, Deletion)}
  /\ UNCHANGED <<imms, levels, fileids, nextfile>>

(* Rotation: the full active memtable becomes the newest immutable one.    *)
Rotate ==
  /\ mem # {}
  /\ Len(imms) < MaxImms
  /\ imms' = <<mem>> \o imms
  /\ mem' = {}
  /\ UNCHANGED <<seq, levels, fileids, nextfile>>

(* Flush: the oldest immutable memtable is written by CompactionJob::Run   *)
(* into one new sorted run appended to level 0, and dropped from the list. *)
Flush ==
  /\ imms # <<>>
  /\ LET run == JobRun(SortedRecords(Last(imms)))
     IN /\ levels' = AppendRun(levels, 0, run)
        /\ fileids' = AppendRun(fileids, 0, NewFileIds(Len(run)))
        /\ nextfile' = nextfile + Len(run)
  /\ imms' = Front(imms)
  /\ UNCHANGED <<seq, mem>>

(* Leveled compaction of level 0: the merge heap over all level-0 runs and *)
(* the level-1 run (the target run) feeds CompactionJob::Run; the result   *)
(* replaces them as the only level-1 run (spec scenario S4).               *)
Compact ==
  /\ PickLevel0(levels)
  /\ LET inputs == levels[1] \o (IF Len(levels) > 1 THEN levels[2] ELSE <<>>)
         merged == SortedRecords(UNION {RunRecords(r) : r \in Range(inputs)})
         run    == JobRun(merged)
     IN /\ levels' = <<<<>>, <<run>>>> \o SubSeq(levels, 3, Len(levels))
        /\ fileids' = <<<<>>, <<NewFileIds(Len(run))>>>> \o SubSeq(fileids, 3, Len(fileids))
        /\ nextfile' = nextfile + Len(run)
  /\ UNCHANGED <<seq, mem, imms>>

Init ==
  /\ seq = 0
  /\ mem = {}
  /\ imms = <<>>
  /\ levels = <<>>
  /\ fileids = <<>>
  /\ nextfile = 0

Next ==
  \/ \E k \in Keys : Put(k) \/ Delete(k)
  \/ Rotate
  \/ Flush
  \/ Compact

Spec == Init /\ [][Next]_vars

-----------------------------------------------------------------------------
Records == [key : Keys, seq : 1..MaxSeq, type : RecordTypes]

(* Types, with every SSTable of a run non-empty (a reader takes its         *)
(* smallest and largest key from the file) and every record carrying a     *)
(* sequence number already allocated.                                     *)
TypeOK ==
  /\ seq \in 0..MaxSeq
  /\ mem \subseteq Records
  /\ imms \in Seq(SUBSET Records)
  /\ levels \in Seq(Seq(Seq(Seq(Records))))
  /\ \A l \in Range(levels) : \A run \in Range(l) : <<>> \notin Range(run)
  /\ AllRecords \subseteq {r \in Records : r.seq <= seq}

\* The newest record of key k anywhere in the tree.
Newest(k) ==
  LET rs == {r \in AllRecords : r.key = k}
  IN CHOOSE r \in rs : \A o \in rs : o.seq <= r.seq

(* What the table holds: the value of the newest record of each key, or    *)
(* NoValue when there is none or it is a tombstone.                        *)
View ==
  [k \in Keys |->
     IF \E r \in AllRecords : r.key = k
     THEN IF Newest(k).type = Value THEN Newest(k).seq ELSE NoValue
     ELSE NoValue]

KV == INSTANCE KVStore WITH dict <- View, Vals <- 1..MaxSeq

(* Refinement: every step of the tree is a Put or a Delete of the abstract *)
(* store or leaves it unchanged.  Flush and compaction rewrite records and *)
(* drop older versions in CompactionJob::Run; this fails if any of them    *)
(* ever loses or resurrects the newest version of a key.                   *)
KVRefinement == KV!KVSpec

(* The components a lookup visits, in the order SuperVersion::Get visits   *)
(* them: active memtable, immutable memtables, the level-0 runs newest     *)
(* first, then the runs of the deeper levels.                              *)
ScanOrder ==
  <<mem>> \o imms
    \o FoldLeft(LAMBDA acc, l : acc \o [i \in DOMAIN l |-> RunRecords(l[Len(l) + 1 - i])],
                <<>>, levels)

(* Read-path ordering: for any key, a component visited earlier holds only *)
(* newer versions than one visited later.  The lookup stops at the first   *)
(* component that answers, so this is what makes that answer the newest;   *)
(* rotation, flush order (oldest immutable memtable first), run order in   *)
(* Level::Append and the compaction target all have to agree for it.       *)
ComponentsOrderedBySeq ==
  \A i, j \in DOMAIN ScanOrder : i < j =>
    \A a \in ScanOrder[i], b \in ScanOrder[j] : a.key = b.key => a.seq > b.seq

(* A lookup at the current sequence number of a key whose newest record is *)
(* a tombstone finds nothing (spec: a Deletion shadows any older Value).   *)
DeleteShadowsOlder ==
  \A k \in Keys :
    (\E r \in AllRecords : r.key = k) /\ Newest(k).type = Deletion
      => SuperVersionGet(mem, imms, levels, k, seq).kind # "Found"

(* A point lookup at the current sequence number, through the active and  *)
(* immutable memtables, the level-0 runs newest first, the deeper levels,  *)
(* each run's binary search over its SSTables and the SSTable scan,        *)
(* returns the newest value of every key whose newest record is a Value,  *)
(* and NotFound for a key never written, across rotations, flushes and     *)
(* compactions.                                                            *)
GetReturnsNewest ==
  \A k \in Keys :
    LET got == SuperVersionGet(mem, imms, levels, k, seq)
    IN IF \E r \in AllRecords : r.key = k
       THEN Newest(k).type = Value => got = Found(Newest(k).seq)
       ELSE got = NotFound

-----------------------------------------------------------------------------
(* The children of the SuperVersionIterator of the current state (its      *)
(* constructor is in version.hpp, not in the repository): one memtable     *)
(* iterator per memtable, active first, and one SortedRunIterator per run  *)
(* of every level.                                                         *)
Memtables == <<mem>> \o imms
AllRuns == FlattenSeq(levels)
AllFileIds == FlattenSeq(fileids)
SVChildren ==
  [i \in DOMAIN Memtables |-> MemChild(SortedRecords(Memtables[i]))]
    \o [j \in DOMAIN AllRuns |-> RunChild(AllRuns[j], Built(AllRuns[j]), AllFileIds[j])]

ScanFuel == Cardinality(AllRecords) + 1

(* A full scan (SeekToFirst, then Next while Valid) yields every record of *)
(* the tree exactly once in internal-key order, across memtables, runs,    *)
(* SSTables and blocks, whenever the heap's comparisons are defined.       *)
MergedScanAgrees ==
  LET st == SVSeekToFirst(SVChildren)
      sc == HeapScan(SVChildren, st.H, st.cur, ScanFuel)
  IN sc.ok => sc.keys = SortedRecords(AllRecords)

(* Seek(k, s) followed by Next yields exactly the records of the tree not  *)
(* below (k, s, Value), in order, for every key and snapshot, whenever     *)
(* the seek and the heap's comparisons are defined.                        *)
MergedSeekAgrees ==
  \A k \in Keys, s \in 0..MaxSeq :
    LET st == SVSeek(SVChildren, k, s)
        sc == HeapScan(SVChildren, st.H, st.cur, ScanFuel)
    IN st.ok /\ sc.ok =>
         sc.keys = SelectSeq(SortedRecords(AllRecords), LAMBDA r : ~KeyLess(r, Target(k, s)))

=============================================================================
