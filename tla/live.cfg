CONSTANTS
  Random = {r1}
  Named = {n1}
  Blobs = {b1}
  Sessions = {s1}
  Workers = {w1}
  Parsers = {p1}
  NoOne = NoOne
  NoBlob = NoBlob
  QuotaMessages = 2
  QuotaBytes = 3
  MaxFaults = 2
  Sizes = {1, 2}
  MaxRecipients = 1
  MaxAttempts = 3
  MaxAttachments = 0
  StatementsFail = FALSE
SPECIFICATION FairSpec
CHECK_DEADLOCK FALSE
PROPERTIES
  EventuallyReserved
  OrphansCollected
  MessagesSettle
