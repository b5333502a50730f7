SPECIFICATION FairSpec
CONSTANTS
  Node = {n1}
  Key = {k1}
  PodObj = {o1, o2, o3}
  Request = {1, 2}
  NodeInfo = {i1}
  Nil = Nil
  Main = Main
  NodeWatch = NodeWatch
  PodWatch = PodWatch
  Thread = {Main, NodeWatch, PodWatch}
  Answers = {"ok","forbidden","error"}
  MaxChanges = 3
  MaxLosses = 1
  CanResize = TRUE
  CanRejoin = FALSE
  CanChangeEarly = FALSE
PROPERTY EventuallyMirrors

CHECK_DEADLOCK FALSE
