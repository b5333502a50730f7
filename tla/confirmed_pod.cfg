SPECIFICATION Spec
CONSTANTS
  a = a
  b = b
  Nil = Nil
  Pod <- TwoPods
  NamespaceOf <- MCNamespaceOf
  WorkloadOf <- MCWorkloadOf
  Rankings <- OneRanking
  Queries <- TwoQueries
  Containers <- MCContainers
  Scalable <- MCScalable
  Replicas = 1
  MaxCommands = 2
  Budgets = {6}
  ColumnCounts = {1}
  PodLines = {2}
  Keys = {"menu"}


PROPERTY DangerousIsConfirmed
CHECK_DEADLOCK FALSE
