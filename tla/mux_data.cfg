CONSTANTS
  MaxStreamId = 3
  EventCap = 1
  ControlCap = 1
  AcceptCap = 1
  FrameCap = 1
  WireCap = 1
  Openers <- ClientOnly
  Closers <- Neither
  Droppers <- Neither
  Senders <- Both
  Splitters <- ClientOnly
  Failures = FALSE
  Abandons = FALSE
  Drops = TRUE
  RawFrames <- Neither
  MaxOpens = 1
  MaxSends = 2
  MaxCloses = 2
SPECIFICATION Spec
INVARIANTS Conserved   RemoteCloseObserved
PROPERTIES ImplementsService
CHECK_DEADLOCK FALSE
