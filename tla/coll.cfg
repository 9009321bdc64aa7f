SPECIFICATION Spec
CONSTANTS
  n1 = n1
  n2 = n2
  n3 = n3
  n4 = n4
  Node = {n1, n2, n3, n4}
  NULL = NULL
  DELAY_MAP_SIZE = 2
SYMMETRY NodeSymmetry
INVARIANTS MapOK WalkComplete
PROPERTY ListSpec
CHECK_DEADLOCK FALSE
