SPECIFICATION FairSpec
CONSTANTS
  p1 = p1
  p2 = p2
  n1 = n1
  n2 = n2
  Nil = Nil
  Pod = {p1, p2}
  NodeOf <- MCNodeOf
  MaxObj = 5
  MaxChanges = 3
  MaxSamples = 3
INVARIANTS MetricsTypeOK OneAnswerShown
PROPERTIES MeasuredPodsShowUsage OutagesEnd
CHECK_DEADLOCK FALSE
