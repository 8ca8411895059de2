CONSTANTS
  MaxStreamId = 2
  EventCap = 1
  ControlCap = 1
  AcceptCap = 1
  FrameCap = 1
  WireCap = 1
  Openers <- ClientOnly
  Closers <- ClientOnly
  Droppers <- ServerOnly
  Senders <- ClientOnly
  Splitters <- Both
  Failures = FALSE
  Abandons = FALSE
  Drops = FALSE
  RawFrames <- Neither
  MaxOpens = 3
  MaxSends = 1
  MaxCloses = 0
SPECIFICATION FairSpec
INVARIANTS TypeOK
PROPERTIES OpenReturns ShutdownCompletes BreakReachesPeer 
CHECK_DEADLOCK FALSE
