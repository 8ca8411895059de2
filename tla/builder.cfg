SPECIFICATION Spec
CONSTANTS
  Names <- MCNames
  ServerPort = 4433
  Inputs <- MCAllInputs
  MaxAddrs = 2
  Ifaces <- MCIfaces
  Dialers <- MCDialers
INVARIANTS TypeOK ListenersDialled DialOrder  AdvertisedIsListenedIfSpecified
CHECK_DEADLOCK FALSE
