CONSTANTS
  Plaintexts <- MCPlaintexts
  ChunkSize = 2
  MaxFaults = 1
  MaxDamage = 2
  MaxBodyBytes = 3
  MaxAttachmentBytes = 3
  MaxParts = 2
  Word <- Words
  Addresses = {a1, a2}
  Public = {a1}
  MaxRedirects = 2
  MaxCodes = 2
  MaxLinks = 2
  MaxScan = 2
  AllDigits <- MCAllDigits
  SixLong <- MCSixLong
  UrlSays <- MCUrlSays
  Subject <- MCSubject
SPECIFICATION Spec
CHECK_DEADLOCK FALSE
INVARIANTS
  TypeOK
  StoredIsWhole
  OpenedIsWhole
  PartsAccounted
  CodesBestFirst
  LinksToFollowFirst
  DialsWhatItChecked
