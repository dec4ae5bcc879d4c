SPECIFICATION Spec
CONSTANTS
  n1 = n1
  n2 = n2
  poll1 = poll1
  boot1 = boot1
  boot2 = boot2
  Nodes = {n1, n2}
  Funcs = {"f", "g", "h"}
  Apps = {poll1, boot1, boot2}
  App0 = poll1
  Peer <- MCPeer
  Periodic <- MCPeriodic
  Content <- MCContent
  Cores <- MCCores
  InitEnabled <- MCEnabled
  FuncOrder <- MCOrder
  BusyExe = 0
  MissLow = 0
  MissHigh = 0
  Ticks = 1000
  MaxPackets = 2
  MaxTraffic = 1
  MaxDecisions = 2
  MaxFaults = 1
INVARIANTS
  TypeOK
  OneSendEvent
  PollsWithinBudget
  TableNeverAhead
PROPERTIES
  AskedIsKnown
CHECK_DEADLOCK FALSE
