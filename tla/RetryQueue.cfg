SPECIFICATION RetrySpec
CONSTANTS
  Keys = {k1, k2, k3}
  MaxRetry = 2
  BatchSize = 2
  NoBound = NoBound
  MaxCount = 3
  MaxFaults = 1
INVARIANTS
  RetryTypeOK
  BatchIsQueued
PROPERTIES
  FirstComeFirstServed
  NotStarved
  RetriesEnd
