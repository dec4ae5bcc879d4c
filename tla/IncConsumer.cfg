SPECIFICATION Spec
CONSTANTS
  SeqMax = 3
  MaxEarly = 2
  MaxLost = 1
INVARIANTS
  TypeOK
  WatchedOnce
  DelaysAreTrue
  OneSendEvent
PROPERTIES
  SilentAfterStop
  ImplementsStream
  AskedIsAnswered
CHECK_DEADLOCK FALSE
