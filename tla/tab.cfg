CONSTANTS
  Waiters = {}
  Tabs = {t1}
  SubscriberBuffer = 1
  PageSize = 1
  MaxMessages = 2
  MaxReminders = 0
  MaxFaults = 1
  MaxRequests = 2
SPECIFICATION Spec
CHECK_DEADLOCK FALSE
INVARIANTS
  TypeOK
  StreamIsComplete
  QuietTabShowsAll
