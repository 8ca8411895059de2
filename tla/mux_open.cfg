CONSTANTS
  MaxStreamId = 3
  EventCap = 1
  ControlCap = 1
  AcceptCap = 1
  FrameCap = 1
  WireCap = 1
  Openers <- ClientOnly
  Closers <- Neither
  Droppers <- Both
  Senders <- Neither
  Splitters <- Both
  Failures = TRUE
  Abandons = TRUE
  Drops = FALSE
  RawFrames <- RejectSecond
  MaxOpens = 2
  MaxSends = 0
  MaxCloses = 0
SPECIFICATION Spec
INVARIANTS OpenAccounted 
PROPERTIES ImplementsService
CHECK_DEADLOCK FALSE
