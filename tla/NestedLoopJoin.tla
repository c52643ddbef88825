---------------------------- MODULE NestedLoopJoin ----------------------------
(***************************************************************************)
(* JoinVecExecutor (src/execution/vec/join_vexecutor.hpp) under a consumer *)
(* that pulls Next until it gets an empty batch.  Init materialises the    *)
(* build child; each InternalNext call runs the loop nest probe row i,     *)
(* build batch j, build row b, one step per iteration, and returns when    *)
(* the output batch holds max_batch_size_ rows (saving i, j, b + 1) or     *)
(* when the probe child returns an empty batch.  Indexes are 0-based as in *)
(* the code; probe_[i + 1] is the code's probe_[i].                        *)
(***************************************************************************)
EXTENDS JoinCommon

VARIABLES
  buildIn, probeIn,  \* what the build (ch_) and probe (ch2_) children return
  pulled,            \* probe batches handed out by ch2_ so far
  childEnded,        \* ch2_ has returned its empty batch
  pullAfterEnd,      \* ch2_->Next() was called after that
  build_,            \* the materialised build batches
  probe_,            \* the current probe batch
  probe_index_, build_index_, b_index_,
  pred_result_,      \* positions b of build_[j] matching probe row i
  output,            \* the batch being filled by the current call
  result,            \* row ids the consumer has received, in order
  pc                 \* "new", "idle" (between calls), "call", "done"

vars == <<buildIn, probeIn, pulled, childEnded, pullAfterEnd, build_, probe_,
          probe_index_, build_index_, b_index_, pred_result_, output, result, pc>>

Init ==
  /\ buildIn \in {Label("build", s) : s \in ChildShapes}
  /\ probeIn \in {Label("probe", s) : s \in ChildShapes}
  /\ pulled = 0 /\ childEnded = FALSE /\ pullAfterEnd = FALSE
  /\ build_ = <<>> /\ probe_ = <<>>
  /\ probe_index_ = 0 /\ build_index_ = 0 /\ b_index_ = 0
  /\ pred_result_ = {}
  /\ output = <<>> /\ result = <<>>
  /\ pc = "new"

(* Init(): drain ch_, copying the rows of each batch into a new batch.     *)
Open ==
  /\ pc = "new"
  /\ build_' = [k \in DOMAIN buildIn |-> SelectSeq(buildIn[k], LAMBDA r : r.valid)]
  /\ probe_' = <<>>
  /\ pc' = "idle"
  /\ UNCHANGED <<buildIn, probeIn, pulled, childEnded, pullAfterEnd, probe_index_,
                 build_index_, b_index_, pred_result_, output, result>>

\* The consumer calls Next: a fresh output batch.
Call ==
  /\ pc = "idle"
  /\ pc' = "call"
  /\ output' = <<>>
  /\ UNCHANGED <<buildIn, probeIn, pulled, childEnded, pullAfterEnd, build_, probe_,
                 probe_index_, build_index_, b_index_, pred_result_, result>>

\* InternalNext returns out: the consumer takes its rows, and stops at an
\* empty batch.
Deliver(out) ==
  /\ result' = result \o ValidIds(out)
  /\ pc' = IF out = <<>> THEN "done" ELSE "idle"

\* Mutant: the empty probe batch does not end the call.
PullNoEndCheck ==
  /\ pc = "call"
  /\ probe_index_ >= Len(probe_)
  /\ LET next == IF pulled < Len(probeIn) THEN probeIn[pulled + 1] ELSE <<>>
     IN /\ probe_' = next
        /\ pulled' = IF pulled < Len(probeIn) THEN pulled + 1 ELSE pulled
        /\ childEnded' = (next = <<>>)
        /\ pullAfterEnd' = (pullAfterEnd \/ childEnded)
        /\ probe_index_' = 0 /\ build_index_' = 0 /\ b_index_' = 0
        /\ UNCHANGED <<output, result, pc>>
  /\ UNCHANGED <<buildIn, probeIn, build_, pred_result_>>

(* probe_index_ >= probe_.size(): pull the next probe batch; an empty one  *)
(* ends the call, any other restarts the three indexes.                    *)
Pull ==
  /\ pc = "call"
  /\ probe_index_ >= Len(probe_)
  /\ LET next == IF pulled < Len(probeIn) THEN probeIn[pulled + 1] ELSE <<>>
     IN /\ probe_' = next
        /\ pulled' = IF pulled < Len(probeIn) THEN pulled + 1 ELSE pulled
        /\ childEnded' = (next = <<>>)
        /\ pullAfterEnd' = (pullAfterEnd \/ childEnded)
        /\ IF next = <<>>
           THEN /\ Deliver(output)
                /\ UNCHANGED <<probe_index_, build_index_, b_index_, output>>
           ELSE /\ probe_index_' = 0 /\ build_index_' = 0 /\ b_index_' = 0
                /\ UNCHANGED <<output, result, pc>>
  /\ UNCHANGED <<buildIn, probeIn, build_, pred_result_>>

\* Mutant: the batch is taken as full before the row is appended.
RowLateFull ==
  /\ pc = "call"
  /\ probe_index_ < Len(probe_)
  /\ build_index_ < Len(build_)
  /\ b_index_ < Len(build_[build_index_ + 1])
  /\ LET pr  == probe_[probe_index_ + 1]
         bb  == build_[build_index_ + 1]
         res == IF b_index_ = 0
                THEN {b \in 0..(Len(bb) - 1) : Pred(bb[b + 1], pr)}
                ELSE pred_result_
         out == IF b_index_ \in res
                THEN Append(output, [row |-> <<bb[b_index_ + 1].id, pr.id>>, valid |-> TRUE])
                ELSE output
     IN /\ pred_result_' = res
        /\ b_index_' = b_index_ + 1
        /\ IF b_index_ \in res /\ Len(output) = MaxBatch
           THEN Deliver(out) /\ output' = out
           ELSE output' = out /\ UNCHANGED <<result, pc>>
  /\ UNCHANGED <<buildIn, probeIn, pulled, childEnded, pullAfterEnd, build_, probe_,
                 probe_index_, build_index_>>

\* Mutant: a full batch saves b instead of b + 1.
RowSaveSame ==
  /\ pc = "call"
  /\ probe_index_ < Len(probe_)
  /\ build_index_ < Len(build_)
  /\ b_index_ < Len(build_[build_index_ + 1])
  /\ LET pr  == probe_[probe_index_ + 1]
         bb  == build_[build_index_ + 1]
         res == IF b_index_ = 0
                THEN {b \in 0..(Len(bb) - 1) : Pred(bb[b + 1], pr)}
                ELSE pred_result_
         out == IF b_index_ \in res
                THEN Append(output, [row |-> <<bb[b_index_ + 1].id, pr.id>>, valid |-> TRUE])
                ELSE output
     IN /\ pred_result_' = res
        /\ IF b_index_ \in res /\ Len(out) = MaxBatch
           THEN Deliver(out) /\ output' = out /\ b_index_' = b_index_
           ELSE output' = out /\ b_index_' = b_index_ + 1 /\ UNCHANGED <<result, pc>>
  /\ UNCHANGED <<buildIn, probeIn, pulled, childEnded, pullAfterEnd, build_, probe_,
                 probe_index_, build_index_>>

(* Iteration b of the innermost loop.  At b_index_ = 0 the predicate is    *)
(* evaluated for probe row i against the whole build batch j; a matching   *)
(* build row is appended; a full batch saves (i, j, b + 1) and returns.    *)
Row ==
  /\ pc = "call"
  /\ probe_index_ < Len(probe_)
  /\ build_index_ < Len(build_)
  /\ b_index_ < Len(build_[build_index_ + 1])
  /\ LET pr  == probe_[probe_index_ + 1]
         bb  == build_[build_index_ + 1]
         res == IF b_index_ = 0
                THEN {b \in 0..(Len(bb) - 1) : Pred(bb[b + 1], pr)}
                ELSE pred_result_
         out == IF b_index_ \in res
                THEN Append(output, [row |-> <<bb[b_index_ + 1].id, pr.id>>, valid |-> TRUE])
                ELSE output
     IN /\ pred_result_' = res
        /\ b_index_' = b_index_ + 1
        /\ IF b_index_ \in res /\ Len(out) = MaxBatch
           THEN Deliver(out) /\ output' = out
           ELSE output' = out /\ UNCHANGED <<result, pc>>
  /\ UNCHANGED <<buildIn, probeIn, pulled, childEnded, pullAfterEnd, build_, probe_,
                 probe_index_, build_index_>>

\* The b loop of build batch j is over: b_index_ = 0, next j.
EndBuildBatch ==
  /\ pc = "call"
  /\ probe_index_ < Len(probe_)
  /\ build_index_ < Len(build_)
  /\ b_index_ >= Len(build_[build_index_ + 1])
  /\ pred_result_' = IF b_index_ = 0 THEN {} ELSE pred_result_
  /\ b_index_' = 0
  /\ build_index_' = build_index_ + 1
  /\ UNCHANGED <<buildIn, probeIn, pulled, childEnded, pullAfterEnd, build_, probe_,
                 probe_index_, output, result, pc>>

\* The j loop of probe row i is over: build_index_ = 0, next i.
EndProbeRow ==
  /\ pc = "call"
  /\ probe_index_ < Len(probe_)
  /\ build_index_ >= Len(build_)
  /\ build_index_' = 0
  /\ probe_index_' = probe_index_ + 1
  /\ UNCHANGED <<buildIn, probeIn, pulled, childEnded, pullAfterEnd, build_, probe_,
                 b_index_, pred_result_, output, result, pc>>

Next == Open \/ Call \/ Pull \/ Row \/ EndBuildBatch \/ EndProbeRow

Spec == Init /\ [][Next]_vars /\ WF_vars(Next)

-----------------------------------------------------------------------------
TypeOK ==
  /\ pulled \in 0..Len(probeIn)
  /\ {childEnded, pullAfterEnd} \subseteq BOOLEAN
  /\ probe_index_ \in 0..MaxBatch /\ b_index_ \in 0..MaxBatch
  /\ build_index_ \in 0..Len(buildIn)
  /\ pred_result_ \subseteq 0..(MaxBatch - 1)
  /\ Len(output) <= MaxBatch
  /\ pc \in {"new", "idle", "call", "done"}

(* When the consumer has seen the empty batch, it has received every pair  *)
(* of the join of the children, none twice, although the output was cut   *)
(* into batches of max_batch_size_ and each cut resumed from the saved     *)
(* (probe_index_, build_index_, b_index_) and the saved pred_result_.      *)
JoinComplete ==
  pc = "done" => ReferenceJoin(buildIn, probeIn) \subseteq Range(result) /\ NoRepeats(result)

(* The consumer only receives pairs of the join: no pair with a probe row  *)
(* the probe child had deselected (spec 4.8: rows are selected by the      *)
(* batch's selection bitmap).                                              *)
JoinSound ==
  pc = "done" => Range(result) \subseteq ReferenceJoin(buildIn, probeIn)

(* Once the probe child has returned its empty batch, it is never pulled   *)
(* again (executor.hpp: it is illegal to invoke Next() after Next()        *)
(* returns invalid result).                                                *)
NoPullAfterEnd == ~pullAfterEnd

(* A consumer that keeps calling Next eventually receives the empty batch. *)
Terminates == <>(pc = "done")

=============================================================================
