SPECIFICATION SafetySpec
CONSTANTS
  j1 = j1
  j2 = j2
  j3 = j3
  j4 = j4
  Jobs = {j1, j3}
  Funcs <- MCFuncs
  FuncOf <- MCFuncOf
  Resources <- MCResources
  Need <- MCNeed
  Capacity <- MCCapacity
  QueueSize = 1
  Garbage = {0}
  NameOf <- MCNameOf
  Data <- MCData
  ParamsOf <- MCParamsOf
  ParamNumber <- MCArity
  InitEnabled = {"on"}
  Stale = 1
  Lost = 0
  Switch = 0
  Budget <- MCBudget
INVARIANTS
  WaitedForIsSent
CHECK_DEADLOCK FALSE
