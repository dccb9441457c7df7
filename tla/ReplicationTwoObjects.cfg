SPECIFICATION FairSpec
CONSTANTS
  u1 = u1
  u2 = u2
  u3 = u3
  k1 = k1
  k2 = k2
  Uploads <- TwoUploads
  Keys = {k1, k2}
  KeyOf <- TwoObjects
  KindOf <- DirectAndResumable
  Polls = {p1, p2}
  Slots = {s1, s2}
  MaxRetry = 2
  BatchSize = 2
  MaxFaults = 1
  Absent = Absent
  Torn = Torn
  None = None
PROPERTIES
  ImplementsRetryQueue
  EveryRowSettles
