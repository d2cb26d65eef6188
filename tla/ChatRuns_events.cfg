\* Two sessions and three ids: a message, the run named for it, and a run of another client.
SPECIFICATION Spec
CONSTANTS
  Sessions = {a, b}
  Ids = {i1, i2, i3}
  MaxChecks = 1
  MaxSends = 1
  None = None
SYMMETRY Symmetry
INVARIANTS
  SessionsApart
  
  PendingUnanswered
PROPERTIES
  KeptWhileAway
CHECK_DEADLOCK FALSE
