SPECIFICATION FairSpec
CONSTANTS
  Forms <- MCForms
  BufferSize = 2
  PipeCap = 1
  ReadBuf = 2
  Lens = {0, 3}
  MaxSends <- MCSends
  MaxCloses <- MCCloses
  Abandons = TRUE
  ConnCloses = {"opener"}
INVARIANTS TypeOK MessagesInUnits EndIsComplete
PROPERTIES SendReturns ReceiveReturns WrittenIsAccepted
CHECK_DEADLOCK FALSE
