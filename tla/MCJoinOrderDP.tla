---------------------------- MODULE MCJoinOrderDP ----------------------------
(* Three base tables 0, 1, 2 and the predicate elements of a query over    *)
(* them: two equalities forming a chain (one that needs the second can_hj  *)
(* orientation at the split {2} | {1}), a non-equality, and an equality    *)
(* of two columns of table 0 in an ON clause, as PredicateVec::Create     *)
(* divides the clause.  The planner puts a query's elements on its top     *)
(* join.  Expressions of depth 2 over two tables check the PredicateVec    *)
(* operators themselves.                                                   *)
EXTENDS CostBasedOptimizer, PredicateVec

MCTableName(t) == CASE t = 0 -> "t0" [] t = 1 -> "t1" [] OTHER -> "t2"

\* An element as the planner reads it: CheckLeft/CheckRight test its
\* bitsets, can_hj tests IsEq.
AsPred(el) == [left |-> el.left_bits_, right |-> el.right_bits_, eq |-> IsEq(el)]

\* t0.a = t1.a AND t1.a = t2.a AND t2.a < t0.a AND t0.a = t0.b, divided
\* by PredicateVec::Create.
MCOn ==
  Cond("AND", Cond("AND", Cond("AND", Cond("EQ", Column(0), Column(1)),
                                      Cond("EQ", Column(1), Column(2))),
                          Cond("LT", Column(2), Column(0))),
              Cond("EQ", Column(0), Column(0)))

MCPreds == {AsPred(el) : el \in Range(Create(MCOn))}

\* A WHERE element the planner keeps in a Filter.
FilterElem == AsPred(Create(Cond("LT", Column(0), Column(2)))[1])

Scan(i)  == [type |-> "SeqScan", tables |-> {i}, ch |-> <<>>, preds |-> {}]
RScan(i) == [type |-> "RangeScan", tables |-> {i}, ch |-> <<>>, preds |-> {}]
Values   == [type |-> "Print", tables |-> {}, ch |-> <<>>, preds |-> {}]
Join(a, b, ps)  == [type |-> "Join", tables |-> a.tables \cup b.tables, ch |-> <<a, b>>, preds |-> ps]
Unary(t, a, ps) == [type |-> t, tables |-> a.tables, ch |-> <<a>>, preds |-> ps]

(* Left-deep and right-deep joins under Project and Aggregate, which DP    *)
(* may reorder; a Filter between root and joins, a values clause, and an   *)
(* INSERT ... SELECT, which the gate turns away.                           *)
MCQueries(ps) ==
  LET left  == Join(Join(Scan(0), Scan(1), {}), Scan(2), ps)
      right == Join(Scan(0), Join(Scan(1), Scan(2), {}), ps)
  IN { Unary("Project", left, {}),
       Unary("Aggregate", right, {}),
       Unary("Project", Unary("Filter", left, {FilterElem}), {}),
       Unary("Project", Join(Join(Scan(0), Scan(1), {}), Values, ps), {}),
       Unary("Insert", Unary("Project", left, {}), {}) }

(* A join with a primary-key range scan of table 2, and a query over a     *)
(* range scan alone.                                                       *)
MCRangeQueries(ps) ==
  { Unary("Project", Join(Join(Scan(0), Scan(1), {}), RScan(2), ps), {}),
    Unary("Project", RScan(0), {}) }

\* The DFS meets the SeqScans in the order of their table bits.
ASSUME \A ps \in SUBSET MCPreds :
         \A q \in MCQueries(ps) \cup MCRangeQueries(ps) :
           LET s == DFS(q).scans IN \A i \in DOMAIN s : s[i].tables = {i - 1}

MCStats == {0, 1}

(* The elements of a PredicateVec are the conjuncts of the expression it   *)
(* was created from: when Optimize has returned, dividing GenExpr's AND    *)
(* chain of Create's elements again gives the same elements with the       *)
(* same bitsets, for every expression of depth ExprDepth, wrapped          *)
(* non-condition conjuncts included (spec 4.11: the conjunction equals     *)
(* the original predicate).                                                *)
GenExprRoundTrip == done => RoundTripAll
=============================================================================
