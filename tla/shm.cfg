SPECIFICATION FairSpec
CONSTANTS
  cfrm = cfrm
  pkt = pkt
  Writer = {w1}
  Reader = r
  HandlerWriter = {w1}
  Msg = {cfrm, pkt}
  Words = 2
  Size <- MCSize
  Zero = Zero
  NONE = NONE
  Crashes = TRUE
  LateStart = FALSE
INVARIANT MutualExclusion
PROPERTIES RegisterSpec OperationEnds
CHECK_DEADLOCK FALSE
