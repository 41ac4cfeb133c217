CONSTANTS
  Waiters = {c1}
  Tabs = {}
  SubscriberBuffer = 2
  PageSize = 1
  MaxMessages = 2
  MaxReminders = 1
  MaxFaults = 2
  MaxRequests = 1
SPECIFICATION FairSpec
CHECK_DEADLOCK FALSE
INVARIANTS
  CursorNeverSkips
  WakeupPending
PROPERTIES
  PollersSeeAll
