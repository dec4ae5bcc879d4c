SPECIFICATION SafetySpec
CONSTANTS
  n1 = n1
  n2 = n2
  poll1 = poll1
  boot1 = boot1
  boot2 = boot2
  Nodes = {n1, n2}
  Funcs = {"f", "g", "h"}
  Apps = {poll1, boot1, boot2}
  App0 = poll1
  Peer <- MCPeer
  Periodic <- MCPeriodic
  Content <- MCContent
  Cores <- MCCores
  InitEnabled <- MCEnabledOne
  FuncOrder <- MCOrder
  BusyExe = 1
  MissLow = 1
  MissHigh = 1
  Ticks = 1000
  MaxPackets = 2
  MaxTraffic = 1
  MaxDecisions = 2
  MaxFaults = 0
PROPERTIES
  SwitchedAsNamed
CHECK_DEADLOCK FALSE
