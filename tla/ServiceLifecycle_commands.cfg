SPECIFICATION Spec
CONSTANTS
  Pids = {p1, p2, p3}
  None = None
  CLI = CLI
  Hidden = FALSE
  MaxRuns = 1
  MaxCommands = 2
  MaxCrashes = 1
SYMMETRY PidSymmetry
INVARIANTS
  OneRuntime
  Stopped
  PairedIdentityServes
CHECK_DEADLOCK FALSE
