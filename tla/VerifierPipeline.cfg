CONSTANTS
  None = None
  k1 = k1
  k2 = k2
  Keys = {k1, k2}
  KidHash <- MCKidHash
  Stmts = {1, 2, 3, 4}
  Pools <- PipelinePools
  Targets = {4}
  KnownKeys = {k1, k2}
  TrustedLogs = {}
  MaxLineageDepth = 2
  MaxSthDelta = 0
  Volatile = {3}
  Misfiled = {1}
  Revocable = {}
  RevocableKeys = {}
  MaxTime = 0
  Outages = FALSE
SPECIFICATION Spec
INVARIANTS
  TypeOK
  LineageIsCommitted
  StampedStretchMonotone
  AppendsOneSubject
  RevokesAuthority
  RecoversByGuardian
PROPERTIES
  ImplementsContract
CHECK_DEADLOCK FALSE
