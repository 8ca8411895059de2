SPECIFICATION FairSpec
CONSTANTS
  Transports = {"tcp", "quic"}
  MetaSize = 5
  FileSizes = {3, 5, 7}
  BufferSize = 3
  ChanCap = 2
  ProviderFails = TRUE
  LinkFails = TRUE
INVARIANT TypeOK
INVARIANT SavedIsPrefix
INVARIANT OkIsWholeOverTcp
PROPERTY TransferReturns
CHECK_DEADLOCK FALSE
