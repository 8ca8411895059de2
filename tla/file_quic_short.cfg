SPECIFICATION Spec
CONSTANTS
  Transports = {"quic"}
  MetaSize = 5
  FileSizes = {5}
  BufferSize = 3
  ChanCap = 2
  ProviderFails = TRUE
  LinkFails = FALSE
INVARIANT OkIsWhole
CHECK_DEADLOCK FALSE
