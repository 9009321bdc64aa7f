SPECIFICATION Spec
CONSTANTS
  p1 = p1
  p2 = p2
  p3 = p3
  Pkt = {p1, p2, p3}
  NULL = NULL
  MAX_RETX_NUM = 2
INVARIANTS QueueOK StatCounted KeptInQueue
PROPERTY ListSpec
CHECK_DEADLOCK FALSE
