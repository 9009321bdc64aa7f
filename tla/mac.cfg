SPECIFICATION FairSpec
CONSTANTS
  MAX_NODE_NUM = 3
  LOCAL_ADDRESS = 1
  MAX_RETX_NUM = 2
  MaxPackets = 2
  MaxFrames = 2
INVARIANTS
  StateVectorOK
  UpdateStatExact
  TimersExact
  SleepHasTimer
  TimeoutFindsPacket
PROPERTIES
  ServiceSpec
  PacketLeaves
  BusyWaitEnds
