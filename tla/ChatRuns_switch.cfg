\* What a test says of a switch to another session.
SPECIFICATION Spec
CONSTANTS
  Sessions = {a, b}
  Ids = {i1, i2}
  MaxChecks = 1
  MaxSends = 1
  None = None
SYMMETRY Symmetry
INVARIANTS
  SwitchDoesNotLeak
CHECK_DEADLOCK FALSE
