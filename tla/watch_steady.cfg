SPECIFICATION Spec
CONSTANTS
  Node = {n1, n2}
  Key = {k1}
  PodObj = {o1, o2, o3}
  Request = {1, 2}
  NodeInfo = {i1, i2}
  Nil = Nil
  Main = Main
  NodeWatch = NodeWatch
  PodWatch = PodWatch
  Thread = {Main, NodeWatch, PodWatch}
  Answers = {"ok"}
  MaxChanges = 3
  MaxLosses = 0
  CanResize = FALSE
  CanRejoin = FALSE
  CanChangeEarly = FALSE
INVARIANTS BindingsMatchStore UsedIsSumOfBound NoPhantomPods NodesShowLastDelivered
SYMMETRY Interchangeable
CHECK_DEADLOCK FALSE
