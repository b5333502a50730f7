SPECIFICATION Spec
CONSTANTS
  Node = {n1, n2}
  Key = {k1}
  PodObj = {o1, o2, o3}
  Request = {1}
  NodeInfo = {i1}
  Nil = Nil
  Main = Main
  NodeWatch = NodeWatch
  PodWatch = PodWatch
  Thread = {Main, NodeWatch, PodWatch}
  Answers = {"ok"}
  MaxChanges = 3
  MaxLosses = 1
  CanResize = FALSE
  CanRejoin = TRUE
  CanChangeEarly = TRUE
INVARIANTS TypeOK StoreShowsLastDelivered LostOnlyWithItsNode HiddenOnlyInTransit
PROPERTY ImplementsPodTable
SYMMETRY Interchangeable
CHECK_DEADLOCK FALSE
