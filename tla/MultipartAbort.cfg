SPECIFICATION Spec
CONSTANTS
  p1 = p1
  m1 = m1
  m2 = m2
  c1 = c1
  c2 = c2
  None = None
  Puts <- MCTwoPuts
  PartOf <- MCTwoPartOf
  Completes <- MCCompletes
  Patient = FALSE
  CanExpire = FALSE
  MaxFaults = 0
PROPERTIES AbortIsFinal
CHECK_DEADLOCK FALSE
