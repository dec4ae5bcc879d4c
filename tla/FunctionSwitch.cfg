SPECIFICATION SwitchSpec
CONSTANTS
  n1 = n1
  n2 = n2
  Nodes = {n1}
  Funcs = {"f", "g"}
  Cores <- MCCores
  Ram <- MCRam
  InitEnabled <- MCEnabledFew
  FuncOrder <- MCOrder
  BusyExe = 2
  MissLow = 0
  MissHigh = 1
  Ticks = 1000
  MaxCount = 2
  MaxTraffic = 3
  MaxLost = 1
  MaxLate = 1
  MaxDrag = 1
INVARIANTS
  SwitchTypeOK
  ExcludedAsDecided
PROPERTIES
  MissedIsEnabled
  Settles
CHECK_DEADLOCK FALSE
