CONSTANTS
  Random = {r1}
  Named = {n1}
  Blobs = {b1, b2}
  Sessions = {s1}
  Workers = {w1}
  Parsers = {p1}
  Readers = {q1}
  NoOne = NoOne
  NoBlob = NoBlob
  QuotaMessages = 2
  QuotaBytes = 3
  MaxFaults = 1
  Sizes = {1, 2}
  MaxRecipients = 1
  MaxAttempts = 2
  MaxAttachments = 1
  StatementsFail = TRUE
SPECIFICATION OneInboxSpec
CHECK_DEADLOCK FALSE
SYMMETRY Symmetry
INVARIANTS
  TypeOK
  ReadableMail
  RefcountCovers
  FailsOnlyWhenGone
  ParsedAnswerIsWhole
