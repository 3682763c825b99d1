CONSTANTS
  n1 = n1
  n2 = n2
  second = second
  None = None
  Procs = {p1, p2, p3}
  Names = {n1, n2, second}
  Jobs <- AllJobs
  FirstKey = k0
  FirstName = n1
SPECIFICATION Spec
SYMMETRY Alike
INVARIANTS
  EndorsedBeforeSaved
  KeptUnlessDisturbed
  ImportReplacesNoSettledKey
CHECK_DEADLOCK FALSE
