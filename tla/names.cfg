CONSTANTS
  Names = {1}
  PoolSize = 2
  Openers = {c1}
  Sources = {i1}
  Sessions = {s1, s2}
  NoOne = NoOne
  Burst = 1
  GlobalBurst = 1
  MaxRefills = 1
  MaxTransactions = 2
  MaxChanges = 1
  MaxFaults = 1
  ConnectionLimit = 1
SYMMETRY Symmetry
SPECIFICATION Spec
CHECK_DEADLOCK FALSE
INVARIANTS
  TypeOK
  AnnouncedOnce
  AnswersAreLive
  CreatedIsPaid
  SlotsExact
  OpenedWhereAllocatable
PROPERTIES
  PinnedOnceSettled
