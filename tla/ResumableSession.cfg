SPECIFICATION Spec
CONSTANTS
  u1 = u1
  u2 = u2
  u3 = u3
  plain = plain
  plus = plus
  accent = accent
  blank = blank
  encoded = encoded
  Null = Null
  NoRow = NoRow
  Absent = Absent
  None = None
  Secret = Secret
  Missing = Missing
  Second = 2
  Lifetime = 1
  ResumableSize = 2
  Keys <- MCKeys
  InQuery <- MCInQuery
  InPath <- MCInPath
  Object = plain
  Sizes = {1, 2}
  Uploads <- MCUploads
  Length = 2
  AwaitSend = TRUE
  Day = 2
  MaxNow = 6
  MaxFaults = 1
SYMMETRY Symmetry
INVARIANTS TypeOK IssuedUrlsLast AuthorisedUntilExpiry SessionEndsWithItsUrl
           NoSessionOutlivesCleanup
CHECK_DEADLOCK FALSE
