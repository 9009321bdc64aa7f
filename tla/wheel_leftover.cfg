SPECIFICATION Spec
CONSTANTS
  TIME_WHEEL_SIZE = 3
  Node = {n1, n2, n3}
  NULL = NULL
  Interval = {1, 2}
INVARIANT SlotProcessed
