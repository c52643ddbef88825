------------------------------- MODULE LsmRead -------------------------------
(***************************************************************************)
(* The point-lookup path of the LSM tree: SSTable::Get, SortedRun::Get,    *)
(* Level::Get, Version::Get and SuperVersion::Get (src/storage/lsm/sst.cpp,*)
(* level.cpp, version.cpp), and the memtable lookup they start from.       *)
(*                                                                         *)
(* A lookup returns NotFound, Deleted (a tombstone is the newest record    *)
(* visible) or Found(v), v the sequence number of the write that stored    *)
(* the value.  A memtable is a set of records, a level a sequence of       *)
(* sorted runs (oldest first), a version a sequence of levels (level 0     *)
(* first).                                                                 *)
(***************************************************************************)
EXTENDS LsmRecords

NotFound == [kind |-> "NotFound"]      \* GetResult::kNotFound
Deleted  == [kind |-> "Delete"]        \* GetResult::kDelete
Found(v) == [kind |-> "Found", val |-> v]   \* GetResult::kFound, *value = v

(***************************************************************************)
(* SSTable::Get: scanning the SSTable's records for user key k with seq at *)
(* most s, the first Value found is returned; a Deletion only turns a      *)
(* NotFound into Delete.  The bloom filter has no false negatives and is   *)
(* left out.  The block chosen by the index search is the one holding the  *)
(* first record not smaller than (k, s); when an SSTable holds at most one *)
(* record per user key, which is what CompactionJob::Run writes into one   *)
(* SSTable, scanning that block equals scanning the whole SSTable.         *)
(***************************************************************************)
SSTGet(sst, k, s) ==
  LET hits == SelectSeq(sst, LAMBDA r : r.key = k /\ r.seq <= s)
      puts == SelectSeq(hits, LAMBDA r : r.type = Value)
  IN IF puts # <<>> THEN Found(puts[1].seq)
     ELSE IF hits # <<>> THEN Deleted
     ELSE NotFound

(***************************************************************************)
(* SortedRun::Get binary-searches the run for an SSTable whose             *)
(* [smallest user key, largest user key] contains k and stops at the first *)
(* one it probes; 0 when none does.  Indices are 1-based here, so m is the *)
(* code's midpoint plus one.                                               *)
(***************************************************************************)
RECURSIVE RunSearch(_, _, _, _)
RunSearch(ssts, k, l, r) ==
  IF l > r THEN 0
  ELSE LET m == l + (r - l) \div 2
       IN IF SmallestKey(ssts[m]).key <= k /\ k <= LargestKey(ssts[m]).key
          THEN m
          ELSE IF k < SmallestKey(ssts[m]).key
               THEN RunSearch(ssts, k, l, m - 1)
               ELSE RunSearch(ssts, k, m + 1, r)

RunGet(run, k, s) ==
  LET i == RunSearch(run, k, 1, Len(run))
  IN IF i = 0 THEN NotFound ELSE SSTGet(run[i], k, s)

\* Mutant: the runs are asked from the oldest (first) one.
LevelGetOldestFirst(runs, k, s) ==
  LET answered == {i \in DOMAIN runs : RunGet(runs[i], k, s) # NotFound}
  IN IF answered = {} THEN NotFound ELSE RunGet(runs[Min(answered)], k, s)

\* Level::Get: runs from the newest (last) to the oldest; the first answer
\* that is not NotFound, a Delete included, is returned.
LevelGet(runs, k, s) ==
  LET answered == {i \in DOMAIN runs : RunGet(runs[i], k, s) # NotFound}
  IN IF answered = {} THEN NotFound ELSE RunGet(runs[Max(answered)], k, s)

\* Version::Get: levels from 0 down; only a kFound ends the search.
VersionGet(levels, k, s) ==
  LET found == {i \in DOMAIN levels : LevelGet(levels[i], k, s).kind = "Found"}
  IN IF found = {} THEN NotFound ELSE LevelGet(levels[Min(found)], k, s)

\* MemTable::Get (memtable.cpp, not under src/): the newest record of k with
\* seq at most s decides.
MemGet(mem, k, s) ==
  LET hits == {r \in mem : r.key = k /\ r.seq <= s}
      newest == CHOOSE r \in hits : \A o \in hits : o.seq <= r.seq
  IN IF hits = {} THEN NotFound
     ELSE IF newest.type = Value THEN Found(newest.seq) ELSE Deleted

\* SuperVersion::Get: the active memtable, the immutable memtables in list
\* order, then the version; only a kFound ends the search.
SuperVersionGet(mem, imms, levels, k, s) ==
  LET tables == <<mem>> \o imms
      found  == {i \in DOMAIN tables : MemGet(tables[i], k, s).kind = "Found"}
  IN IF found # {} THEN MemGet(tables[Min(found)], k, s)
     ELSE VersionGet(levels, k, s)

=============================================================================
