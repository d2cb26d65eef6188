\* One pairing request at a time, with a token check going on beside it.
SPECIFICATION Spec
CONSTANTS
  Codes = {k1, k2, k3}
  Tokens = {t1, t2, t3}
  Workers = {q1}
  Checks = {c1}
  TokenMax = 2
  Secret = secret
  None = none
SYMMETRY Symmetry
INVARIANTS
  
  MirrorFollowsRecord
  ValidTokenAccepted
  HandedTokenKept
  PrintedCodeClaimable
  SyncedTokenMirrored
CHECK_DEADLOCK FALSE
