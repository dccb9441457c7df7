SPECIFICATION FairSpec
CONSTANTS
  p1 = p1
  m1 = m1
  m2 = m2
  c1 = c1
  c2 = c2
  None = None
  Puts <- MCOnePut
  PartOf <- MCOnePartOf
  Completes <- MCCompletes
  Patient = FALSE
  CanExpire = TRUE
  MaxFaults = 1
INVARIANTS OneComplete LockIsHeld
PROPERTIES StatusReleased
CHECK_DEADLOCK FALSE
