SPECIFICATION ScreenSpec
CONSTANTS
  a1 = a1
  a2 = a2
  a3 = a3
  b1 = b1
  Nil = Nil
  Pod <- AllPods
  NamespaceOf <- MCNamespaceOf
  WorkloadOf <- MCWorkloadOf
  Rankings <- OneRanking
  Queries <- NoMatch
  Budgets = {5}
  ColumnCounts = {1, 2}
  PodLines = {3, 5}
  Keys = {"group", "details", "filter"}
  Terminals <- SomeTerminals
  Fleets <- SomeFleets
  TrailingBlank = 0
  MessageLines = {1, 3}
  MaxMessages = 2
VIEW LiveScreen
INVARIANTS PagesShowEveryPod ColumnsFit ScreenFits FleetFitsItsBudget ColumnsByPriority TitleIsSteady
PROPERTY StatusNotCutShort
