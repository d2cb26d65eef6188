SPECIFICATION Spec
CONSTANTS
  Codes = {k1, k2}
  Tokens = {t1, t2}
  Workers = {q1, q2}
  Checks = {}
  TokenMax = 2
  Secret = secret
  None = none
SYMMETRY Symmetry
INVARIANTS
  HandedTokenKept
CHECK_DEADLOCK FALSE
