SPECIFICATION Spec
CONSTANTS
  p1 = p1
  m1 = m1
  m2 = m2
  c1 = c1
  c2 = c2
  None = None
  Puts <- MCPuts
  PartOf <- MCPartOf
  Completes <- MCCompletes
  Patient = TRUE
  CanExpire = TRUE
  MaxFaults = 1
INVARIANTS TypeOK CompletedIsWhole NothingLeftBehind UnqueuedIsRetryable
PROPERTIES ImplementsAtomicUpload
CHECK_DEADLOCK FALSE
