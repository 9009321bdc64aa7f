SPECIFICATION Spec
CONSTANTS
  MAX_NODE_NUM = 4
  MAX_PROP_DELAY = 150
  CFRM_GUARD_TIME = 25
  DATA_GUARD_TIME = 65
  MAX_RETX_NUM = 2
  TIME_WHEEL_SIZE = 500
  WAIT_FB_TIME = 275
  CFRM_PROC_TIME = 20
  DATA_PKT_PROC_TIME = 40
  BackOffs = {40, 60, 79}
  Arrivals <- MCArrivals
  MaxLosses = 2
INVARIANTS
  AckedDelivered
  NeverExits
  ValuesFit
  HandlerFinds
  NoOverwrite
  AllLeave
CHECK_DEADLOCK FALSE
