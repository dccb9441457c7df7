SPECIFICATION Spec
CONSTANTS
  u1 = u1
  u2 = u2
  u3 = u3
  k1 = k1
  k2 = k2
  Uploads <- AllUploads
  Keys = {k1}
  KeyOf <- SameObject3
  KindOf <- EachPath
  Polls = {p1, p2}
  Slots = {s1, s2}
  MaxRetry = 2
  BatchSize = 1
  MaxFaults = 1
  Absent = Absent
  Torn = Torn
  None = None
SYMMETRY Symmetry
INVARIANTS
  TypeOK
  BatchRowsQueued
  CopiesExplained
  AckedNeverForgotten
  NobodyWaitsInVain
PROPERTIES
  GivenUpForGood
  RowRemovalIsBacked
