SPECIFICATION Spec
CONSTANTS
  Node = {n1, n2}
  Key = {k1}
  PodObj = {o1, o2, o3}
  Request = {1, 2}
  NodeInfo = {i1}
  Nil = Nil
  Main = Main
  NodeWatch = NodeWatch
  PodWatch = PodWatch
  Thread = {Main, NodeWatch, PodWatch}
  Answers = {"ok"}
  MaxChanges = 2
  MaxLosses = 0
  CanResize = TRUE
  CanRejoin = FALSE
  CanChangeEarly = FALSE
INVARIANT GonePodsUseNothing
SYMMETRY Interchangeable
CHECK_DEADLOCK FALSE
