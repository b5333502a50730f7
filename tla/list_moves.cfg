SPECIFICATION ListSpec
CONSTANTS
  a1 = a1
  a2 = a2
  b1 = b1
  Nil = Nil
  Pod <- SomePods
  NamespaceOf <- MCNamespaceOf
  WorkloadOf <- MCWorkloadOf
  Rankings <- SomeRankings
  Queries <- SomeQueries
  Budgets = {4}
  ColumnCounts = {1, 2}
  PodLines = {2, 3}
  Keys = {"arrows", "pages", "sort", "group", "filter", "details"}
VIEW LiveList
INVARIANTS ListTypeOK SelectionIsOnPage
PROPERTY PausedFlatRowsKeepOrder
CHECK_DEADLOCK FALSE
