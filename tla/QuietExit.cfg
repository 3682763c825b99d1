CONSTANTS
  None = None
  BadLength = BadLength
  NoPoint = NoPoint
  k1 = k1
  k2 = k2
  c1 = c1
  Keys = {k1, k2, c1}
  KidHash <- MCKidHash
  CompositeOf <- MCCompositeOf
  KidOnCurve = TRUE
  MaxLineageDepth = 2
  MaxSthDelta = 0
  Stmts = {1, 2}
  Pools <- MCPools
  Targets = {2}
  ArgSets <- MCArgs
  Movable = {1, 2}
  Revocable = {2}
  MaxTime = 1
  Torn = Torn
SPECIFICATION Spec
INVARIANT QuietExitTellsVerdict
CHECK_DEADLOCK FALSE
