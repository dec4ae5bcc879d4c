SPECIFICATION Spec
CONSTANTS
  AppsAtStart <- MCApps
  LateApps <- MCLate
  NodeLists <- MCLists
  Files <- MCFiles
  CannotOpen <- MCClosed
  Fired <- MCFired
  Costs <- MCCosts
  MaxGroups = 2
  MaxEvents = 2
  MaxLate = 1
INVARIANT NamesAreOwn
CHECK_DEADLOCK FALSE
