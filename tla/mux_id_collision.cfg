CONSTANTS
  MaxStreamId = 3
  EventCap = 1
  ControlCap = 1
  AcceptCap = 1
  FrameCap = 1
  WireCap = 1
  Openers <- Both
  Closers <- Neither
  Droppers <- Neither
  Senders <- Neither
  Splitters <- Both
  Failures = FALSE
  Abandons = FALSE
  Drops = FALSE
  RawFrames <- Neither
  MaxOpens = 2
  MaxSends = 0
  MaxCloses = 0
SPECIFICATION Spec
INVARIANTS PendingIdFresh
CHECK_DEADLOCK FALSE
