SPECIFICATION Spec
CONSTANTS
  MAX_NODE_NUM = 3
  LOCAL_ADDRESS = 1
  MAX_PROP_DELAY = 150
  CFRM_GUARD_TIME = 25
  DATA_GUARD_TIME = 65
  TIME_WHEEL_SIZE = 500
  Topology <- MCTopology
  Steps <- MCSteps
  StartTime = 65200
  HearTime = 180
  MaxFrames = 2
  MaxRTS = 1
  MaxTime = 900
INVARIANT NonInterference
