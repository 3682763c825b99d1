CONSTANTS
  None = None
  k1 = k1
  k2 = k2
  Keys = {k1, k2}
  KidHash <- MCKidHash
  Stmts = {1, 2, 3, 4}
  Pools <- LineagePools
  Targets = {4}
  KnownKeys = {k1}
  TrustedLogs = {}
  MaxLineageDepth = 2
  MaxSthDelta = 0
  Volatile = {3}
  Misfiled = {1}
  Revocable = {}
  RevocableKeys = {}
  MaxTime = 0
  Outages = FALSE
SPECIFICATION Spec
INVARIANTS
  LineageWalkedToRoot
CHECK_DEADLOCK FALSE
