CONSTANTS
  Random = {r1}
  Named = {n1}
  Blobs = {b1, b2}
  Sessions = {s1, s2}
  Workers = {}
  Parsers = {}
  NoOne = NoOne
  NoBlob = NoBlob
  QuotaMessages = 2
  QuotaBytes = 3
  MaxFaults = 1
  Sizes = {1,2}
  MaxRecipients = 2
  MaxAttempts = 1
  MaxAttachments = 0
  StatementsFail = TRUE
SPECIFICATION FairSpec
CHECK_DEADLOCK FALSE
INVARIANTS
  GaplessCursor
  QuotaHolds
PROPERTIES
  NoMailAfterExpiry
  SessionsAnswer
