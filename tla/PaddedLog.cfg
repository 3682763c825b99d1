CONSTANTS
  None = None
  c1 = c1
  c2 = c2
  Contents = {c1, c2}
  Stamp <- StampOf
  Entries <- FiveEntries
  MaxClock = 2
  MaxHeads = 1
SPECIFICATION Spec
INVARIANTS
  LoggedInTime
  IndexIsPosition
  AnchorAsSigned
  IssuedAnchorVerifies
CHECK_DEADLOCK FALSE
