CONSTANTS
  MaxStreamId = 3
  EventCap = 1
  ControlCap = 1
  AcceptCap = 1
  FrameCap = 1
  WireCap = 1
  Openers <- ClientOnly
  Closers <- Neither
  Droppers <- Neither
  Senders <- Both
  Splitters <- Both
  Failures = FALSE
  Abandons = FALSE
  Drops = FALSE
  RawFrames <- Neither
  MaxOpens = 1
  MaxSends = 4
  MaxCloses = 0
SPECIFICATION FairSpec
PROPERTIES DataArrives
CHECK_DEADLOCK FALSE
