SPECIFICATION Spec
CONSTANTS
  rs = rs
  c = c
  go = go
  py = py
  k1 = k1
  k2 = k2
  bad = bad
  t1 = t1
  none = none
  s1 = s1
  a1 = a1
  a2 = a2
  absent = absent
  Programs = {rs, c, go, py}
  Lang <- MCLang
  ShredKeys = {k1, k2}
  BadLength = bad
  Texts = {t1, none}
  NoText = none
  Absent = absent
  SignKeys = {s1}
  Predicates <- MCPredicates
  Ops <- FfiOps
  Ptrs = {a1, a2}
  MaxCopies = 2
  Decodable <- MCDecodable
  MaxCalls = 2
  MaxOps = 5
SYMMETRY Sym
CHECK_DEADLOCK FALSE
INVARIANTS
  TypeOK
  VersionIsOne
  EveryBufferOwned
  AllOrNothing
  RecordedErasure
  ConsentAccepted
PROPERTY OnceLostForever
