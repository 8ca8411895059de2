SPECIFICATION FairSpec
CONSTANTS
  Base = 4
  FlagValues = 2
  Messages <- MCMessages
  PipeCap = 4
  MaxFrames = 3
INVARIANT TypeOK
INVARIANT EndIsComplete
PROPERTY ImplementsChannel
PROPERTY ClosedDrains
CHECK_DEADLOCK FALSE
