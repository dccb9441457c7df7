SPECIFICATION FairDiskSpec
CONSTANTS
  w1 = w1
  w2 = w2
  Unreadable = Unreadable
  Writers <- MCWriters
  Sizes <- MCSizes
  Limit = 2
  PollInterval = 1
  MaxAttempts = 1
  MaxNow = 2
  MaxWrites = 2
  MaxReads = 2
  MaxIO = 2
  MaxDownloads = 1
INVARIANTS TypeOK PollOnIdleNode
PROPERTIES AdmittedOnFreshSize EveryWriterPasses QuietNodeIsPolled
CHECK_DEADLOCK FALSE
