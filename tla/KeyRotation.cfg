CONSTANTS
  None = None
  k1 = k1
  k2 = k2
  k3 = k3
  Keys = {k1, k2, k3}
  Rotations <- Chains
  Kids = {k1}
  Signers = {k1, k2}
  MaxRotationDepth = 3
  VolatileKeys = {k2}
  RevocableKeys = {k1, k2}
SPECIFICATION Spec
INVARIANTS
  TypeOK
  ResolvedThroughRotations
  NoRevokedKeyOnTrail
  NoKidTwice
PROPERTIES
  Termination
CHECK_DEADLOCK FALSE
