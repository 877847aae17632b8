SPECIFICATION FairSpec
CONSTANTS
  Users = {u1, u2}
  Settings = {}
  Helps = {FALSE}
  MaxQueues = 2
  MaxEntries = 2
  MaxFaults = 0
INVARIANTS Integrity CleanupLogs
PROPERTIES EntriesCleared
CHECK_DEADLOCK FALSE
