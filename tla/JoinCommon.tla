----------------------------- MODULE JoinCommon -----------------------------
(***************************************************************************)
(* What the two vectorized join executors share                            *)
(* (src/execution/vec/join_vexecutor.hpp, hashjoin_vexecutor.hpp): rows    *)
(* and batches of the two children, the pull protocol of VecExecutor, and  *)
(* the relational join the executors must compute.                         *)
(*                                                                         *)
(* A row is [id, key, valid]: id is its position <<side, batch, row>> in   *)
(* the child's output, key the value of the join column, valid its bit in  *)
(* the batch's selection vector.  A key is [val, bits]: two keys are equal *)
(* under the join predicate when their vals are, and hashing reads bits.   *)
(* The join predicate is build.key = probe.key on vals; an output row is   *)
(* the pair <<build id, probe id>>.                                        *)
(***************************************************************************)
EXTENDS Integers, Sequences, SequencesExt, FiniteSets

CONSTANTS
  RowKinds,      \* <<key, valid>> pairs a child's row may be
  MaxBatch,      \* max_batch_size_
  MaxBatches     \* bound on the number of non-empty batches of a child

ASSUME MaxBatch \in Nat \ {0} /\ MaxBatches \in Nat
ASSUME \A k \in RowKinds : k[2] \in BOOLEAN

\* The rows of one batch as a child may produce it: 1..MaxBatch rows.
BatchShapes ==
  UNION {[1..n -> RowKinds] : n \in 1..MaxBatch}

\* Every output of a child: at most MaxBatches non-empty batches.
ChildShapes ==
  UNION {[1..n -> BatchShapes] : n \in 0..MaxBatches}

\* The child's batches with each row labelled by its position.
Label(side, shape) ==
  [b \in DOMAIN shape |->
     [r \in DOMAIN shape[b] |->
        [id |-> <<side, b, r>>, key |-> shape[b][r][1], valid |-> shape[b][r][2]]]]

Rows(batches) == UNION {Range(batch) : batch \in Range(batches)}

\* The join predicate on a build and a probe row.
Pred(b, p) == b.key.val = p.key.val

\* The relational join of the two children: valid rows only.
ReferenceJoin(build, probe) ==
  LET vb == {x \in Rows(build) : x.valid}
      vp == {y \in Rows(probe) : y.valid}
  IN {<<q[1].id, q[2].id>> : q \in {x \in vb \X vp : Pred(x[1], x[2])}}

\* The rows of a returned batch that the consumer sees: the valid ones.
ValidIds(batch) ==
  LET v == SelectSeq(batch, LAMBDA r : r.valid) IN [i \in DOMAIN v |-> v[i].row]

\* A sequence holds no element twice.
NoRepeats(s) == Cardinality(Range(s)) = Len(s)

=============================================================================
