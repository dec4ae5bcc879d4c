SPECIFICATION Spec
CONSTANTS
  Base = 2
  LoadUnit = 2
  Settings <- MCSettings
  Draws <- MCDraws
INVARIANTS TypeOK Wired AskedIsServed
