SPECIFICATION Spec
CONSTANTS
  L1 = L1
  L2 = L2
  L3 = L3
  H1 = H1
  H2 = H2
  Jobs <- MCJobs
  Funcs <- MCFuncs
  FuncOf <- MCFuncOf
  Resources <- MCResources
  Need <- MCNeed
  Capacity <- MCCapacity
  QueueSize = 2
  MaxBusy = 2
  Garbage = {0, 1}
INVARIANTS
  TypeOK
  QueueFillMatches
  NoStrandedQueue
  OneFate
  ResourcesConserved
PROPERTIES
  AnsweredUnlessOvertaken
  ImplementsService
CHECK_DEADLOCK FALSE
