------------------------------- MODULE HashJoin -------------------------------
(***************************************************************************)
(* HashJoinVecExecutor (src/execution/vec/hashjoin_vexecutor.hpp) under a  *)
(* consumer that pulls Next until it gets an empty batch.  Init drains the *)
(* build child (left_) into buckets keyed by the hash of the join column;  *)
(* each InternalNext call either pops a buffered batch or probes one batch *)
(* of the probe child (right_) as a whole: the joined rows are cut into    *)
(* batches of max_batch_size_, every cut batch is masked by the residual   *)
(* predicate and pushed on buffer_, and the last one is masked and         *)
(* returned.  The hash of a key is HashOf(bits): ComputeHashKey reads the  *)
(* value's bytes (ReadInt for INT and FLOAT) and chains Hash8 from 0x1234. *)
(***************************************************************************)
EXTENDS JoinCommon

CONSTANTS
  HashOf(_),   \* the bucket of a key's bit pattern
  Buckets      \* the buckets HashOf maps into

VARIABLES
  buildIn, probeIn,  \* what left_ and right_ return
  pulled,            \* probe batches handed out by right_ so far
  hash_table_,       \* bucket -> build rows, in insertion order
  buffer_,           \* full output batches not yet returned
  result,            \* row ids the consumer has received, in order
  pc                 \* "new", "idle" (between calls), "done"

vars == <<buildIn, probeIn, pulled, hash_table_, buffer_, result, pc>>

Hash(key) == HashOf(key.bits)

Init ==
  /\ buildIn \in {Label("build", s) : s \in ChildShapes}
  /\ probeIn \in {Label("probe", s) : s \in ChildShapes}
  /\ pulled = 0
  /\ hash_table_ = [h \in Buckets |-> <<>>]
  /\ buffer_ = <<>>
  /\ result = <<>>
  /\ pc = "new"

\* BuildHashTable over all build batches: every valid row, in order, is
\* pushed into the bucket of its hash.
BuildHashTable(batches) ==
  [h \in Buckets |-> SelectSeq(FlattenSeq(batches), LAMBDA r : r.valid /\ Hash(r.key) = h)]

(* Init(): drain left_, keeping each batch and hashing its rows.           *)
Open ==
  /\ pc = "new"
  /\ hash_table_' = BuildHashTable(buildIn)
  /\ pc' = "idle"
  /\ UNCHANGED <<buildIn, probeIn, pulled, buffer_, result>>

\* The consumer takes the valid rows of a returned batch; an empty batch
\* (size 0, whatever its rows' validity) ends the stream.
Deliver(out) ==
  /\ result' = result \o ValidIds(out)
  /\ pc' = IF out = <<>> THEN "done" ELSE "idle"

\* predicate_.Evaluate over a batch of joined <<build, probe>> rows:
\* rows failing the predicate are deselected.
Masked(batch) ==
  [i \in DOMAIN batch |-> [row   |-> <<batch[i][1].id, batch[i][2].id>>,
                           valid |-> Pred(batch[i][1], batch[i][2])]]

(* The joined rows of one probe batch in the order the loops produce them: *)
(* valid probe rows in order, each with the entries of its bucket.         *)
Candidates(batch) ==
  FoldLeft(LAMBDA acc, p :
             IF p.valid
             THEN acc \o [i \in DOMAIN hash_table_[Hash(p.key)] |->
                            <<hash_table_[Hash(p.key)][i], p>>]
             ELSE acc,
           <<>>, batch)

\* Mutant: a batch is cut only when it holds more than max_batch_size_ rows.
AppendJoinedOverfull(acc, row) ==
  IF Len(acc.cur) > MaxBatch
  THEN [cur |-> <<row>>, buf |-> Append(acc.buf, Masked(acc.cur))]
  ELSE [cur |-> Append(acc.cur, row), buf |-> acc.buf]

\* Mutant: a full batch is pushed without the residual predicate.
AppendJoinedUnmasked(acc, row) ==
  IF Len(acc.cur) = MaxBatch
  THEN [cur |-> <<row>>,
        buf |-> Append(acc.buf, [i \in DOMAIN acc.cur |->
                                   [row |-> <<acc.cur[i][1].id, acc.cur[i][2].id>>, valid |-> TRUE]])]
  ELSE [cur |-> Append(acc.cur, row), buf |-> acc.buf]

\* One joined row: a full batch is masked and pushed first.
AppendJoined(acc, row) ==
  IF Len(acc.cur) = MaxBatch
  THEN [cur |-> <<row>>, buf |-> Append(acc.buf, Masked(acc.cur))]
  ELSE [cur |-> Append(acc.cur, row), buf |-> acc.buf]

\* InternalNext with buffer_ non-empty: its back is returned.
NextBuffered ==
  /\ pc = "idle"
  /\ buffer_ # <<>>
  /\ Deliver(Last(buffer_))
  /\ buffer_' = Front(buffer_)
  /\ UNCHANGED <<buildIn, probeIn, pulled, hash_table_>>

(* InternalNext with buffer_ empty: pull one probe batch; an empty one is  *)
(* returned as it is, any other is joined and its last batch returned.     *)
NextProbe ==
  /\ pc = "idle"
  /\ buffer_ = <<>>
  /\ LET next == IF pulled < Len(probeIn) THEN probeIn[pulled + 1] ELSE <<>>
         st   == FoldLeft(AppendJoined, [cur |-> <<>>, buf |-> <<>>], Candidates(next))
     IN /\ pulled' = IF pulled < Len(probeIn) THEN pulled + 1 ELSE pulled
        /\ buffer_' = st.buf
        /\ Deliver(Masked(st.cur))
  /\ UNCHANGED <<buildIn, probeIn, hash_table_>>

Next == Open \/ NextBuffered \/ NextProbe

Spec == Init /\ [][Next]_vars

-----------------------------------------------------------------------------
TypeOK ==
  /\ pulled \in 0..Len(probeIn)
  /\ DOMAIN hash_table_ = Buckets
  /\ \A b \in Range(buffer_) : Len(b) = MaxBatch
  /\ pc \in {"new", "idle", "done"}

(* Every pair the consumer receives is a pair of the join, and none is     *)
(* received twice, although bucket collisions join rows of different keys  *)
(* (only the residual predicate removes them) and full batches go through  *)
(* buffer_ and come back later, last pushed first.                         *)
JoinSound ==
  pc = "done" => Range(result) \subseteq ReferenceJoin(buildIn, probeIn) /\ NoRepeats(result)

(* When the consumer has seen the empty batch it has received every pair   *)
(* of the join (spec property 6: the hash join yields the multiset of the  *)
(* nested-loop join).                                                      *)
JoinComplete ==
  pc = "done" => ReferenceJoin(buildIn, probeIn) \subseteq Range(result)

=============================================================================
