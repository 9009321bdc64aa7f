SPECIFICATION FairSpec
CONSTANTS
  TxPeriod = 500
  RxPeriod = 100
  ExitWait = 200
  CfrmTime = 20
  DataTime = 40
  TX_PKT_NUM = 3
  Lines = 2
  NONE = NONE
INVARIANTS TimersExact MacAnswers NothingInUse
PROPERTIES NoOverwrite AppEnds
CHECK_DEADLOCK FALSE
