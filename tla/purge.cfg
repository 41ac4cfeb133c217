CONSTANTS
  Random = {r1, r2}
  Named = {n1}
  Blobs = {b1, b2}
  Sessions = {s1}
  Workers = {w1, w2}
  Parsers = {}
  NoOne = NoOne
  NoBlob = NoBlob
  QuotaMessages = 2
  QuotaBytes = 3
  MaxFaults = 0
  Sizes = {1, 2}
  MaxRecipients = 2
  MaxAttempts = 1
  MaxAttachments = 0
  StatementsFail = TRUE
SPECIFICATION PurgeSpec
CHECK_DEADLOCK FALSE
SYMMETRY Symmetry
PROPERTY ImplementsMailbox
INVARIANTS
  TombstoneIsEmpty
  EventsOnce
  MessagesCounted
  CountsWhileApart
