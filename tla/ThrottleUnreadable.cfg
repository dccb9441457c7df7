SPECIFICATION DiskSpec
CONSTANTS
  w1 = w1
  w2 = w2
  Unreadable = Unreadable
  Writers <- MCWriters
  Sizes <- MCSizes
  Limit = 2
  PollInterval = 2
  MaxAttempts = 2
  MaxNow = 5
  MaxWrites = 2
  MaxReads = 2
  MaxIO = 2
  MaxDownloads = 1
INVARIANTS ErrorDisablesThrottle
CHECK_DEADLOCK FALSE
