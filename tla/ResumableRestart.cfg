SPECIFICATION Spec
CONSTANTS
  u1 = u1
  u2 = u2
  u3 = u3
  k1 = k1
  k2 = k2
  Uploads <- OneUpload
  Keys = {k1}
  KeyOf <- SameObject1
  KindOf <- JustResumable
  Polls = {p1}
  Slots = {s1}
  MaxRetry = 2
  BatchSize = 1
  MaxFaults = 1
  Absent = Absent
  Torn = Torn
  None = None
SYMMETRY Symmetry
INVARIANTS
  AckedResumableIsQueued
