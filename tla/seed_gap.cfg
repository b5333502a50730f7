SPECIFICATION Spec
CONSTANTS
  Node = {n1, n2}
  Key = {k1}
  PodObj = {o1, o2, o3}
  Request = {1}
  NodeInfo = {i1}
  Nil = Nil
  Main = Main
  NodeWatch = NodeWatch
  PodWatch = PodWatch
  Thread = {Main, NodeWatch, PodWatch}
  Answers = {"ok"}
  MaxChanges = 1
  MaxLosses = 0
  CanResize = FALSE
  CanRejoin = FALSE
  CanChangeEarly = TRUE
INVARIANT NoPhantomPods
SYMMETRY Interchangeable
CHECK_DEADLOCK FALSE
