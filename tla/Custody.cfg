CONSTANTS
  Absent = Absent
  e1 = e1
  e2 = e2
  m1 = m1
  p1 = p1
  p2 = p2
  EdKeys = {e1, e2}
  MlKeys = {m1}
  Payloads = {p1, p2}
  Unprotected = {empty, anchored}
  EmptyMap = empty
  OnCurve = TRUE
  MaxIssued = 2
  Generable <- MCGenerable
  OwnKeys <- MCOwnKeys
  Headers <- MCHeaders
  MaxSent = 2
SPECIFICATION Spec
SYMMETRY Symmetry
INVARIANTS
  ReferenceDenotesOneKey
  AcceptedAsSigned
  HeaderNamesKey
  DeliveredVerifies
