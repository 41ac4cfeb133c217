CONSTANTS
  Random = {r1}
  Named = {}
  Blobs = {b1}
  Sessions = {s1}
  Workers = {}
  Parsers = {p1}
  NoOne = NoOne
  NoBlob = NoBlob
  QuotaMessages = 2
  QuotaBytes = 3
  MaxFaults = 1
  Sizes = {1}
  MaxRecipients = 1
  MaxAttempts = 3
  MaxAttachments = 0
  StatementsFail = TRUE
SPECIFICATION Spec
CHECK_DEADLOCK FALSE
INVARIANT UnparsedHasJob
