----------------------------- MODULE LsmRecords -----------------------------
(***************************************************************************)
(* Records of the LSM storage engine, the internal-key order, the bounds   *)
(* an SSTable builder records, and the compaction job that turns an        *)
(* internal-key ordered stream into a list of SSTables                     *)
(* (src/storage/lsm/compaction_job.hpp, src/storage/lsm/sst.cpp).          *)
(*                                                                         *)
(* A record is [key, seq, type].  The value a Value record carries is      *)
(* identified with the sequence number of the write that stored it, so a   *)
(* read that returns a value returns that sequence number.  An SSTable is  *)
(* the sequence of its records in file order; a sorted run is a sequence   *)
(* of SSTables.                                                            *)
(***************************************************************************)
EXTENDS Integers, Sequences, SequencesExt, FiniteSets

CONSTANTS
  Keys,          \* user keys; integers so that they are ordered
  SstSize,       \* sst_size_: target bytes of one SSTable
  ValueSize,     \* record_size of a Value record (key + value + headers)
  DeletionSize   \* record_size of a Deletion record (empty value)

ASSUME Keys \subseteq Int /\ Keys # {}
ASSUME ValueSize \in Nat \ {0} /\ DeletionSize \in Nat \ {0}
\* No single record is larger than an SSTable (see the hazard list).
ASSUME SstSize \in Nat /\ ValueSize <= SstSize /\ DeletionSize <= SstSize

Value    == "Value"      \* RecordType::Value
Deletion == "Deletion"   \* RecordType::Deletion
RecordTypes == {Value, Deletion}

Record(k, s, t) == [key |-> k, seq |-> s, type |-> t]

(* ParsedKey ordering: user key ascending, then the newer (higher) seq     *)
(* first.  Sequence numbers are unique, so the type never breaks a tie.    *)
KeyLess(a, b) == a.key < b.key \/ (a.key = b.key /\ a.seq > b.seq)

\* The records of a set in internal-key order, as an iterator yields them.
SortedRecords(R) == SetToSortSeq(R, KeyLess)

(* record_size in CompactionJob::Run: key + value + 3 * sizeof(uint32_t);  *)
(* key and value lengths are abstracted to one size per record type.      *)
RecordSize(r) == IF r.type = Value THEN ValueSize ELSE DeletionSize

(***************************************************************************)
(* CompactionJob::Run.  The loop state is the finished SSTables (out), the *)
(* records buffered for the next one (temp) and their size (cur).  One     *)
(* loop iteration consumes the record r the iterator is positioned at:     *)
(*  - if the last buffered record has r's user key, the older of the two   *)
(*    is dropped (the buffered one is popped when it is not newer);        *)
(*  - if the buffered bytes plus r's size exceed SstSize, the buffer is    *)
(*    written as one SSTable and cleared, whether or not r is kept;        *)
(*  - r is then buffered unless it was the one dropped.                    *)
(***************************************************************************)
JobInit == [out |-> <<>>, temp |-> <<>>, cur |-> 0]

\* Mutant: the buffered record is popped when it is not OLDER than r.
JobStepKeepOlder(st, r) ==
  LET same    == st.temp # <<>> /\ Last(st.temp).key = r.key
      replace == same /\ Last(st.temp).seq >= r.seq
      add     == ~same \/ replace
      temp1   == IF replace THEN Front(st.temp) ELSE st.temp
      cur1    == IF replace THEN st.cur - RecordSize(Last(st.temp)) ELSE st.cur
      cut     == cur1 + RecordSize(r) > SstSize
      temp2   == IF cut THEN <<>> ELSE temp1
      cur2    == IF cut THEN 0 ELSE cur1
  IN [out  |-> IF cut THEN Append(st.out, temp1) ELSE st.out,
      temp |-> IF add THEN Append(temp2, r) ELSE temp2,
      cur  |-> IF add THEN cur2 + RecordSize(r) ELSE cur2]

\* Mutant: the SSTable is cut only when the bytes would exceed SstSize + 1.
JobStepLateCut(st, r) ==
  LET same    == st.temp # <<>> /\ Last(st.temp).key = r.key
      replace == same /\ Last(st.temp).seq <= r.seq
      add     == ~same \/ replace
      temp1   == IF replace THEN Front(st.temp) ELSE st.temp
      cur1    == IF replace THEN st.cur - RecordSize(Last(st.temp)) ELSE st.cur
      cut     == cur1 + RecordSize(r) > SstSize + 1
      temp2   == IF cut THEN <<>> ELSE temp1
      cur2    == IF cut THEN 0 ELSE cur1
  IN [out  |-> IF cut THEN Append(st.out, temp1) ELSE st.out,
      temp |-> IF add THEN Append(temp2, r) ELSE temp2,
      cur  |-> IF add THEN cur2 + RecordSize(r) ELSE cur2]

\* Mutant: the buffer is written at a cut but not cleared.
JobStepNoClear(st, r) ==
  LET same    == st.temp # <<>> /\ Last(st.temp).key = r.key
      replace == same /\ Last(st.temp).seq <= r.seq
      add     == ~same \/ replace
      temp1   == IF replace THEN Front(st.temp) ELSE st.temp
      cur1    == IF replace THEN st.cur - RecordSize(Last(st.temp)) ELSE st.cur
      cut     == cur1 + RecordSize(r) > SstSize
      cur2    == IF cut THEN 0 ELSE cur1
  IN [out  |-> IF cut THEN Append(st.out, temp1) ELSE st.out,
      temp |-> IF add THEN Append(temp1, r) ELSE temp1,
      cur  |-> IF add THEN cur2 + RecordSize(r) ELSE cur2]

JobStep(st, r) ==
  LET same    == st.temp # <<>> /\ Last(st.temp).key = r.key
      replace == same /\ Last(st.temp).seq <= r.seq
      add     == ~same \/ replace
      temp1   == IF replace THEN Front(st.temp) ELSE st.temp
      cur1    == IF replace THEN st.cur - RecordSize(Last(st.temp)) ELSE st.cur
      cut     == cur1 + RecordSize(r) > SstSize
      temp2   == IF cut THEN <<>> ELSE temp1
      cur2    == IF cut THEN 0 ELSE cur1
  IN [out  |-> IF cut THEN Append(st.out, temp1) ELSE st.out,
      temp |-> IF add THEN Append(temp2, r) ELSE temp2,
      cur  |-> IF add THEN cur2 + RecordSize(r) ELSE cur2]

\* Mutant: the buffer is written after the loop even when it is empty.
JobFinishAlways(st) == Append(st.out, st.temp)

\* After the loop, a non-empty buffer becomes the last SSTable.
JobFinish(st) == IF st.temp = <<>> THEN st.out ELSE Append(st.out, st.temp)

\* The SSTables CompactionJob::Run writes for an internal-key ordered input.
JobRun(input) == JobFinish(FoldLeft(JobStep, JobInit, input))

(***************************************************************************)
(* SSTableBuilder::Append keeps smallest_key_ (the first record appended)  *)
(* and largest_key_ (replaced by a record with a larger user key, or the   *)
(* same user key and a smaller seq).  The reader takes them from the file. *)
(***************************************************************************)
SmallestKey(sst) == sst[1]

LargestKey(sst) ==
  FoldLeft(LAMBDA l, r : IF \/ r.key > l.key
                            \/ r.key = l.key /\ l.seq > r.seq
                         THEN r ELSE l,
           sst[1], sst)

\* All records stored in a sorted run.
RunRecords(run) == UNION {Range(sst) : sst \in Range(run)}

=============================================================================
