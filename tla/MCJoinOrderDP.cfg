\* Every hint assignment over {0, 1, 2} for the seven table sets of three
\* tables, every subset of the four predicate elements, every query shape,
\* with and without enable_cost_based and hints; predicate transfer is on.
\* PredicateVec's operators over every expression of depth 2 or less.
CONSTANTS
  N = 3
  ScanCost = 2
  HashJoinCost = 1
  Cards = {0, 1, 2}
  CandidatePreds <- MCPreds
  Huge = 1000000
  Queries <- MCQueries
  Stats <- MCStats
  EnablePT = TRUE
  NullExpr = NullExpr
  Nullopt = Nullopt
  TableName <- MCTableName
  ExprTables = {0, 1}
  ExprDepth = 2
SPECIFICATION Spec
INVARIANT TypeOK
INVARIANT DPOptimal
INVARIANT JoinPredicatesPlacedOnce
INVARIANT QueryPreserved
INVARIANT HashJoinConverted
INVARIANT GenExprRoundTrip
\* Optimize runs once; the final state has no successor.
CHECK_DEADLOCK FALSE
