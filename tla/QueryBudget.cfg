CONSTANTS
  KeyArity <- MCKeyArity
  Numerics = {1, 2, 3, 11}
  Order <- MCOrder
  K = 2
  Queries <- UnionQueries
  BoundedCap = 3
SPECIFICATION Spec
INVARIANT BudgetNeverUnderflows
CHECK_DEADLOCK FALSE
