SPECIFICATION Spec
CONSTANTS
  n1 = n1
  Nodes = {n1}
  Funcs = {"f", "g"}
  Cores <- MCCores
  Ram <- MCRam
  InitEnabled <- MCEnabled
  MaxCount = 2
  MaxLost = 2
INVARIANTS
  TypeOK
PROPERTIES
  StatusIsStored
  InitialIsKept
CHECK_DEADLOCK FALSE
