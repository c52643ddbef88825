---------------------------- MODULE CompactionJob ----------------------------
(***************************************************************************)
(* CompactionJob::Run (src/storage/lsm/compaction_job.hpp) as a state      *)
(* machine, one step per iteration of its while loop, for every            *)
(* internal-key ordered input of at most MaxRecords records.  The loop     *)
(* body is LsmRecords!JobStep, the trailing flush LsmRecords!JobFinish.    *)
(* Each SSTable written is built into blocks by SSTableBuilder (the        *)
(* builder calls at compaction_job.hpp:48-55 and 75-82) and read back      *)
(* through the SSTable reader of module SSTable; the SSTables written,     *)
(* one sorted run, are read through SortedRunIterator.                     *)
(***************************************************************************)
EXTENDS SortedRunIter

CONSTANT MaxRecords   \* bound on the length of the input stream

VARIABLES
  input,   \* the records the iterator yields, in order
  pos,     \* how many of them the loop has consumed
  temp,    \* records buffered for the SSTable being filled
  cur,     \* curr_size: bytes buffered in temp
  out,     \* sst_infos: the SSTables written so far
  done     \* Run has returned

vars == <<input, pos, temp, cur, out, done>>

(* Every stream a merge iterator can produce: records with distinct        *)
(* sequence numbers, in internal-key order.                                *)
Inputs ==
  { SortedRecords({Record(w[i][1], i, w[i][2]) : i \in 1..n}) :
      n \in 0..MaxRecords, w \in [1..MaxRecords -> Keys \X RecordTypes] }

LoopState == [out |-> out, temp |-> temp, cur |-> cur]

Init ==
  /\ input \in Inputs
  /\ pos = 0
  /\ temp = <<>>
  /\ cur = 0
  /\ out = <<>>
  /\ done = FALSE

(* One iteration of while (it.Valid()): the whole body, it.Next() included. *)
Iterate ==
  /\ ~done
  /\ pos < Len(input)
  /\ LET st == JobStep(LoopState, input[pos + 1])
     IN /\ out' = st.out
        /\ temp' = st.temp
        /\ cur' = st.cur
  /\ pos' = pos + 1
  /\ UNCHANGED <<input, done>>

(* The iterator is exhausted: the last buffer is written and Run returns.  *)
Finish ==
  /\ ~done
  /\ pos = Len(input)
  /\ out' = JobFinish(LoopState)
  /\ temp' = <<>>
  /\ cur' = 0
  /\ done' = TRUE
  /\ UNCHANGED <<input, pos>>

Next == Iterate \/ Finish

Spec == Init /\ [][Next]_vars

-----------------------------------------------------------------------------
Records == [key : Keys, seq : 1..MaxRecords, type : RecordTypes]

\* The buffer never holds more bytes than one SSTable may.
TypeOK ==
  /\ input \in Seq(Records)
  /\ pos \in 0..Len(input)
  /\ temp \in Seq(Records)
  /\ cur \in 0..SstSize
  /\ out \in Seq(Seq(Records))
  /\ done \in BOOLEAN

\* Everything written so far, followed by what is buffered.
Written == FlattenSeq(out) \o temp

(* The records written, across SSTable boundaries, are strictly ascending  *)
(* in internal-key order: each SSTable is sorted and the run they form is  *)
(* ordered, whatever the loop pops, drops or cuts.                         *)
OutputSorted == IsSorted(Written, KeyLess)

(* When Run returns, every user key of the input still has its newest      *)
(* record in the output, and the output holds only input records: a        *)
(* reader at the newest sequence number sees the same table before and     *)
(* after the job (spec property 4 at the newest snapshot).                 *)
NewestKept ==
  done =>
    /\ Range(Written) \subseteq Range(input)
    /\ \A i \in DOMAIN input :
         (\A j \in DOMAIN input : input[j].key = input[i].key => input[j].seq <= input[i].seq)
           => input[i] \in Range(Written)

(* The SSTables of the output, read as one sorted run, do not overlap by   *)
(* user key: the largest user key of each is below the smallest of the     *)
(* next (spec: within a sorted run SSTs are strictly ordered and non-      *)
(* overlapping; the job drops the older of two records of one key).        *)
RunNonOverlapping ==
  \A i \in 1..(Len(out) - 1) :
    out[i] # <<>> /\ out[i + 1] # <<>> =>
      LargestKey(out[i]).key < SmallestKey(out[i + 1]).key

-----------------------------------------------------------------------------
\* The snapshots a reader may ask for.
Snapshots == 0..MaxRecords

(* Every SSTable the job writes answers SSTable::Get, through the bloom    *)
(* filter, the index search and the scan of one block and of the block     *)
(* before it, as a scan of its records would: the block cuts of            *)
(* SSTableBuilder::Append and the largest-key index entries lose nothing.  *)
SSTGetAgrees ==
  \A i \in DOMAIN out : \A k \in Keys, s \in Snapshots :
    BlockGet(BuildSST(out[i]), k, s) = SSTGet(out[i], k, s)

(* SeekToFirst and Next over every SSTable the job writes yield exactly    *)
(* the records the job buffered for it, in order (SSTableIterator::Valid   *)
(* compares block_id_ with the record count, and Next moves across         *)
(* blocks).                                                                *)
SSTScanAgrees ==
  \A i \in DOMAIN out : Scan(BuildSST(out[i])) = out[i]

\* The first record of an SSTable not below t, or End.
FirstNotBelow(sst, t) ==
  LET above == {j \in DOMAIN sst : ~KeyLess(sst[j], t)}
  IN IF above = {} THEN End ELSE sst[Min(above)]

(* SSTable::Seek(k, s) positions the iterator at the first record of the   *)
(* SSTable not below (k, s, Value), or makes it invalid when there is      *)
(* none, for every key and snapshot (SuperVersionIterator::Seek seeks      *)
(* every SSTable with the caller's key).                                   *)
SSTSeekAgrees ==
  \A i \in DOMAIN out : \A k \in Keys, s \in Snapshots :
    At(BuildSST(out[i]), SSTSeek(BuildSST(out[i]), k, s)) = FirstNotBelow(out[i], Target(k, s))


-----------------------------------------------------------------------------
(* The SSTables written so far are one sorted run (the job's output is      *)
(* installed as a SortedRun); seeks use user keys below, inside and above   *)
(* the run's.                                                              *)
SeekKeys == (Min(Keys) - 1)..(Max(Keys) + 1)

\* The records of the run not below t, in order.
NotBelow(t) == SelectSeq(FlattenSeq(out), LAMBDA r : ~KeyLess(r, t))

(* SeekToFirst (what SuperVersionIterator::SeekToFirst calls on each run) *)
(* and Next over the run yield every record the job wrote, in order,       *)
(* across SSTable and block boundaries: SortedRunIterator::Next moves to   *)
(* the next SSTable's Begin exactly when the current SSTable is exhausted. *)
RunScanAgrees ==
  out # <<>> =>
    RunScanFrom(Built(out), RunSeekToFirst, Len(FlattenSeq(out)) + 1) = FlattenSeq(out)

(* File numbers equal to the positions, as for the first SSTables of a new *)
(* database, so that a seek is judged apart from the numbering.            *)
PositionFileIds == [i \in DOMAIN out |-> i - 1]

(* Spec 4.3: SortedRun.Seek positions at the first record not below the    *)
(* target, advancing across SSTable boundaries, so the iterator then       *)
(* yields every record of the run not below it (checked where the SSTable  *)
(* seek is defined, with file numbers equal to positions).                 *)
RunSeekComplete ==
  out # <<>> =>
    \A k \in SeekKeys, s \in Snapshots :
      LET q == RunSeek(out, Built(out), PositionFileIds, k, s)
      IN q.p # Oob =>
           RunScanFrom(Built(out), q, Len(FlattenSeq(out)) + 1) = NotBelow(Target(k, s))

=============================================================================
