CONSTANTS
  Random = {r1, r2}
  Named = {}
  Blobs = {b1}
  Sessions = {s1}
  Workers = {w1, w2}
  Parsers = {}
  NoOne = NoOne
  NoBlob = NoBlob
  QuotaMessages = 2
  QuotaBytes = 3
  MaxFaults = 0
  Sizes = {1}
  MaxRecipients = 2
  MaxAttempts = 1
  MaxAttachments = 0
  StatementsFail = TRUE
SPECIFICATION Spec
CHECK_DEADLOCK FALSE
INVARIANT RefcountCovers
