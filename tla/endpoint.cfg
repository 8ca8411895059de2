SPECIFICATION FairSpec
CONSTANTS
  t1 = t1  q1 = q1  p1 = p1  p2 = p2
  Addrs = {t1, q1}  TcpAddrs = {t1}  BadAddrs = {t1}
  Peers = {p1, p2}  Anonymous = {p2}
  Plan <- MCPlan
  ListenCap = 1  ConnCap = 1  CmdCap = 1  MaxCommands = 1
  Listens = TRUE  AcceptFails = TRUE  Vanishes = TRUE
INVARIANTS TypeOK ForwarderOutlivesLoop NoneIsFinal 
PROPERTIES ImplementsAccept DialReturns ShutdownEndsActor BacklogDrains
CHECK_DEADLOCK FALSE
