SPECIFICATION VerifierSpec
CONSTANTS
  MaxLen = 5
INVARIANTS
  StricterAccepted
  SameOverHttp
CHECK_DEADLOCK FALSE
