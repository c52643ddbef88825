------------------------- MODULE CostBasedOptimizer -------------------------
(***************************************************************************)
(* CostBasedOptimizer::Optimize (src/plan/cost_based_optimizer.cpp): the   *)
(* gate CheckCondition, DP over the SeqScans the DFS meets, the rule pass  *)
(* Apply with ConvertToHashJoinRule, and the PredicateTransfer wrapper.    *)
(*                                                                         *)
(* A plan node is [type, tables, ch, preds]: its PlanType, its             *)
(* table_bitset_, its children ch_ and ch2_ as a sequence, and its         *)
(* predicate elements (a Join's predicate_, a Filter's predicate).  The    *)
(* queries are such that the DFS meets the SeqScans in the order of their  *)
(* table bits, so DP index i is the table of bit i (table_set[1 << i] =    *)
(* bitsets_[i]).                                                           *)
(***************************************************************************)
EXTENDS JoinOrderDP

CONSTANTS
  Queries(_),  \* the plans the planner hands over, given the predicate elements of the query
  Stats,       \* the tables db.GetTableStat knows
  EnablePT     \* exec_options.enable_predicate_transfer

\* Nodes without children that the gate accepts as scans.
Leaves == {"SeqScan", "RangeScan", "Print"}

NoPlan  == [type |-> "None", tables |-> {}, ch |-> <<>>, preds |-> {}]
Crashed == [type |-> "Crashed", tables |-> {}, ch |-> <<>>, preds |-> {}]

(* GetTableNum: a values clause (Print) counts 10000 so that the gate      *)
(* rejects it, a SeqScan 1, any other node the sum over its children.      *)
RECURSIVE GetTableNum(_)
GetTableNum(p) ==
  CASE p.type = "Print"   -> 10000
    [] p.type = "SeqScan" -> 1
    [] OTHER -> IF p.ch = <<>> THEN 0
                ELSE GetTableNum(p.ch[1]) + (IF Len(p.ch) = 2 THEN GetTableNum(p.ch[2]) ELSE 0)

\* Mutant: a Filter between the joins is let through as well.
RECURSIVE CheckIsAllJoinFilter(_)
CheckIsAllJoinFilter(p) ==
  \/ p.type \in Leaves
  \/ p.type \in {"Join", "Filter"} /\ \A i \in DOMAIN p.ch : CheckIsAllJoinFilter(p.ch[i])

\* CheckIsAllJoin: only Joins above Print, SeqScan and RangeScan leaves.
RECURSIVE CheckIsAllJoin(_)
CheckIsAllJoin(p) ==
  \/ p.type \in Leaves
  \/ p.type = "Join" /\ CheckIsAllJoin(p.ch[1]) /\ CheckIsAllJoin(p.ch[2])

\* CheckHasStat: every scan's table has statistics; Print has none.
RECURSIVE CheckHasStat(_)
CheckHasStat(p) ==
  \/ p.type \in {"SeqScan", "RangeScan"} /\ p.tables \subseteq Stats
  \/ p.type = "Join" /\ CheckHasStat(p.ch[1]) /\ CheckHasStat(p.ch[2])

(* CheckCondition: at most 20 tables, a Project or Aggregate root over     *)
(* joins only, and hints given or statistics for every scanned table.      *)
CheckCondition(p, opts) ==
  /\ GetTableNum(p) <= 20
  /\ p.type \in {"Project", "Aggregate"}
  /\ CheckIsAllJoin(p.ch[1])
  /\ opts.hints \/ CheckHasStat(p.ch[1])

(* DFS: the SeqScans in the order met (table_names, bitsets_, table_plan)  *)
(* and the elements of every Join's predicate (vec).  A SeqScan ends the   *)
(* walk; any other node is walked through ch_, then ch2_.                  *)
RECURSIVE DFS(_)
DFS(p) ==
  IF p.type = "SeqScan" THEN [scans |-> <<p>>, preds |-> {}]
  ELSE LET rs == [i \in DOMAIN p.ch |-> DFS(p.ch[i])]
       IN [scans |-> FlattenSeq([i \in DOMAIN rs |-> rs[i].scans]),
           preds |-> UNION {rs[i].preds : i \in DOMAIN rs}
                     \cup (IF p.type = "Join" THEN p.preds ELSE {})]

(***************************************************************************)
(* DP(plan, db): without hints the plan is returned as it is.  Otherwise   *)
(* ch_ of the root becomes GeneratePlan over the n SeqScans the DFS met,   *)
(* and cost_ the dp of all of them.  With n = 0 GeneratePlan(0) is not a   *)
(* singleton and builds a join of GeneratePlan(choose[0]) = GeneratePlan(0)*)
(* without end: the stack overflows.                                       *)
(***************************************************************************)
DP(q, opts, sz) ==
  LET d  == DFS(q)
      n  == Len(d.scans)
      st == DPLoop(n, sz, d.preds)
      jp == GeneratePlan(FullOf(n), st.choose, d.preds)
  IN CASE ~opts.hints -> [root |-> q, jp |-> NoPlan, cost |-> 0]
       [] n = 0       -> [root |-> Crashed, jp |-> NoPlan, cost |-> 0]
       [] OTHER       -> [root |-> [q EXCEPT !.ch[1] = jp], jp |-> jp, cost |-> st.dp[FullOf(n)]]

(***************************************************************************)
(* ConvertToHashJoinRule (src/plan/rules is not in the repository; spec    *)
(* 4.9): a Join whose predicate holds an equality element straddling its   *)
(* two children becomes a HashJoin with the same children and predicate.   *)
(***************************************************************************)
Straddles(e, L, R) == ~CheckRight(e, L) /\ ~CheckLeft(e, R) /\ CheckRight(e, R) /\ CheckLeft(e, L)

HashJoinMatch(p) ==
  /\ p.type = "Join"
  /\ \E e \in p.preds : e.eq /\ \/ Straddles(e, p.ch[1].tables, p.ch[2].tables)
                                 \/ Straddles(e, p.ch[2].tables, p.ch[1].tables)

\* Mutant: Apply descends into ch_ only.
RECURSIVE ApplyFirstChild(_)
ApplyFirstChild(p) ==
  LET q == IF HashJoinMatch(p) THEN [p EXCEPT !.type = "HashJoin"] ELSE p
  IN [q EXCEPT !.ch = [i \in DOMAIN q.ch |-> IF i = 1 THEN ApplyFirstChild(q.ch[i]) ELSE q.ch[i]]]

\* Apply: the first matching rule transforms the node, then Apply descends
\* into ch_ and ch2_ of the result.
RECURSIVE Apply(_)
Apply(p) ==
  LET q == IF HashJoinMatch(p) THEN [p EXCEPT !.type = "HashJoin"] ELSE p
  IN [q EXCEPT !.ch = [i \in DOMAIN q.ch |-> Apply(q.ch[i])]]

\* The PredicateTransferPlanNode put above every plan but a write.
WrapTransfer(p) ==
  [type |-> "PredicateTransfer", tables |-> p.tables, ch |-> <<p>>, preds |-> {}]

-----------------------------------------------------------------------------
VARIABLES
  query,   \* the plan handed to Optimize
  opts,    \* enable_cost_based, and whether true_cardinality_hints is present
  sz,      \* the cardinality hints, by table mask (sz[0] = 0)
  plan,    \* the join tree DP installed as plan->ch_, or NoPlan
  cost,    \* plan->cost_ set by DP
  out,     \* the plan Optimize returns
  done     \* Optimize has returned

vars == <<query, opts, sz, plan, cost, out, done>>

Options == [costBased : BOOLEAN, hints : BOOLEAN]

\* Optimize calls DP: the gate holds and cost-based optimization is on.
CallsDP(q, o) == CheckCondition(q, o) /\ o.costBased

NTables == Len(DFS(query).scans)
Collected == DFS(query).preds

(* The hints are read only where DP runs with hints; elsewhere they are    *)
(* fixed at "none", which changes no result.                               *)
Init ==
  /\ query \in UNION {Queries(ps) : ps \in SUBSET CandidatePreds}
  /\ opts \in Options
  /\ sz \in IF CallsDP(query, opts) /\ opts.hints
            THEN {f \in [0..Full -> Cards] :
                    f[0] = 0 /\ \A S \in 0..Full : S > FullOf(NTables) => f[S] = 0}
            ELSE {[S \in 0..Full |-> 0]}
  /\ plan = NoPlan
  /\ cost = 0
  /\ out = NoPlan
  /\ done = FALSE

(* Optimize: DP when the gate holds and cost-based optimization is on,     *)
(* then the hash-join rule pass, then the PredicateTransfer wrapper unless *)
(* the root is Insert, Delete or Update.                                   *)
Optimize ==
  /\ ~done
  /\ LET r  == IF CallsDP(query, opts) THEN DP(query, opts, sz)
               ELSE [root |-> query, jp |-> NoPlan, cost |-> 0]
         p2 == Apply(r.root)
     IN /\ plan' = r.jp
        /\ cost' = r.cost
        /\ out' = CASE r.root = Crashed -> Crashed
                    [] EnablePT /\ p2.type \notin {"Insert", "Delete", "Update"} -> WrapTransfer(p2)
                    [] OTHER -> p2
  /\ done' = TRUE
  /\ UNCHANGED <<query, opts, sz>>

Next == Optimize

Spec == Init /\ [][Next]_vars

-----------------------------------------------------------------------------
\* DP ran and installed a join tree.
DPRan == done /\ plan # NoPlan

(* Type invariant: once DP returns, its plan is a binary join tree whose   *)
(* leaves are the base tables the DFS met, each exactly once, and whose    *)
(* nodes carry predicate elements of the query.                            *)
TypeOK ==
  /\ opts \in Options
  /\ sz \in [0..Full -> Cards]
  /\ cost \in Nat
  /\ done \in BOOLEAN
  /\ DPRan => /\ Shape(plan) \in TreesOf(FullOf(NTables))
              /\ \A n \in PlanNodes(plan) : n.preds \subseteq Collected

(* DP optimality (spec property 5): the plan DP returns is a cheapest join *)
(* tree over all binary trees, and plan->cost_ is its cost.  This is what  *)
(* the split enumeration T >= S/2, the choose[S] == 0 sentinel and the two *)
(* orientations of can_hj have to get right together.                     *)
DPOptimal ==
  DPRan =>
    /\ TreeCost(sz, Collected, plan) = cost
    /\ \A t \in TreesOf(FullOf(NTables)) : cost <= TreeCost(sz, Collected, t)

\* The elements of a set that relate two different tables.
MultiTable(ps) == {e \in ps : Cardinality(e.left \cup e.right) >= 2}

(* Every element that relates two base tables is attached by GeneratePlan  *)
(* to exactly one join of the plan: it is neither dropped nor evaluated    *)
(* twice.                                                                  *)
JoinPredicatesPlacedOnce ==
  DPRan =>
    \A e \in MultiTable(Collected) : Cardinality({n \in PlanNodes(plan) : e \in n.preds}) = 1

\* The plan below the PredicateTransfer wrapper, and what a plan computes:
\* its scans, its filters' elements and its joins' multi-table elements.
Unwrap(p) == IF p.type = "PredicateTransfer" THEN p.ch[1] ELSE p
ScansOf(p) == {n \in PlanNodes(p) : n.type \in Leaves}
FilterPreds(p) == UNION {n.preds : n \in {m \in PlanNodes(p) : m.type = "Filter"}}
JoinedPreds(p) ==
  MultiTable(UNION {n.preds : n \in {m \in PlanNodes(p) : m.type \in {"Join", "HashJoin"}}})

(* Optimize preserves the query: it returns (no crash), the root operator  *)
(* is the same, every scan of the input is still scanned, and no filter    *)
(* or join element that relates two tables is lost.  This is what the gate *)
(* (CheckCondition), the DFS that rebuilds the joins from the SeqScans it  *)
(* meets, and the rule pass have to get right together.                    *)
QueryPreserved ==
  done =>
    /\ out # Crashed
    /\ Unwrap(out).type = query.type
    /\ ScansOf(Unwrap(out)) = ScansOf(query)
    /\ FilterPreds(Unwrap(out)) = FilterPreds(query)
    /\ JoinedPreds(Unwrap(out)) = JoinedPreds(query)

(* After Optimize a join is a HashJoin exactly when its predicate holds an *)
(* equality element straddling its children: Apply reaches every join,     *)
(* those DP built and those under ch2_ included.                           *)
HashJoinConverted ==
  done /\ out # Crashed =>
    \A n \in PlanNodes(out) :
      n.type \in {"Join", "HashJoin"} =>
        (n.type = "HashJoin" <=> HashJoinMatch([n EXCEPT !.type = "Join"]))

=============================================================================
