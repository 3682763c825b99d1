CONSTANTS
  Payloads <- SignerPayloads
  Wires <- CallerWires
  Bytes <- ByteStrings
  MaxNesting = 4
  MaxDepth = 4
  MaxEntries = 4
SPECIFICATION Spec
INVARIANTS
  AcceptedIsCanonical
  SignedIsReadBack
  ImportedVerifies
CHECK_DEADLOCK FALSE
