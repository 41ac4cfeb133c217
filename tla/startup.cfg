CONSTANTS
  Processes <- MCProcesses
  Command <- MCCommand
  Embedded <- MCEmbedded
  Installed <- MCInstalled
  MaxConns = 4
  Restarted = {"killed"}
  MaxFaults = 1
  NoOne = NoOne
SPECIFICATION FairSpec
CHECK_DEADLOCK FALSE
INVARIANTS
  ServesMigrated
  FailsOnlyForCause
PROPERTY WholeOrGone
