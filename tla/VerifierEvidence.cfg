CONSTANTS
  None = None
  k1 = k1
  k2 = k2
  Keys = {k1, k2}
  KidHash <- MCKidHash
  Stmts = {1}
  Pools <- EvidencePools
  Targets = {1}
  KnownKeys = {k1}
  TrustedLogs = {1}
  MaxLineageDepth = 1
  MaxSthDelta = 0
  Volatile = {}
  Misfiled = {}
  Revocable = {1}
  RevocableKeys = {k1}
  MaxTime = 3
  Outages = TRUE
SPECIFICATION Spec
INVARIANTS
  RevokedKeyRefused
  RevokedAnchoredRefused
  NoWarningMeansProven
CHECK_DEADLOCK FALSE
