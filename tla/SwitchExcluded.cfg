SPECIFICATION SafetySpec
CONSTANTS
  n1 = n1
  n2 = n2
  Nodes = {n1, n2}
  Funcs = {"f", "g"}
  Cores <- MCCores
  Ram <- MCRam
  InitEnabled <- MCEnabled
  FuncOrder <- MCOrder
  BusyExe = 0
  MissLow = 0
  MissHigh = 1
  Ticks = 1000
  MaxCount = 2
  MaxTraffic = 3
  MaxLost = 0
  MaxLate = 0
  MaxDrag = 1
INVARIANTS
  ExcludedByDecision
CHECK_DEADLOCK FALSE
