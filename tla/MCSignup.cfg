SPECIFICATION Spec
CONSTANTS
  Emails = {alice}
  Calls = {c1, c2, c3}
  RetryWindow = 1
  TokenTTL = 2
  MaxClock = 4
  MaxTokens = 2
SYMMETRY CallSymmetry
INVARIANTS
  TypeOK
  ApprovalStands
  OneSessionPerSignup
PROPERTIES
  ImplementsLedger
