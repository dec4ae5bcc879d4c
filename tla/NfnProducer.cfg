SPECIFICATION Spec
CONSTANTS
  j1 = j1
  j2 = j2
  j3 = j3
  j4 = j4
  Jobs = {j1, j2, j4}
  Funcs <- MCFuncs
  FuncOf <- MCFuncOf
  Resources <- MCResources
  Need <- MCNeed
  Capacity <- MCCapacity
  QueueSize = 1
  Garbage = {0}
  NameOf <- MCNameOf
  Data <- MCData
  ParamsOf <- MCParamsOf
  ParamNumber <- MCArity
  InitEnabled = {"on"}
  Stale = 1
  Lost = 1
  Switch = 1
  Budget <- MCBudget
INVARIANTS
  TypeOK
  SendingIsInFlight
  WaitedForIsSentWhileFresh
  NoRequestForgotten
  NoDoubleHandling
PROPERTIES
  ImplementsExecution
  EveryRequestResolved
CHECK_DEADLOCK FALSE
