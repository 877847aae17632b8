SPECIFICATION Spec
CONSTANTS
  Users = {u1, u2}
  Settings = {"locked"}
  Helps = {TRUE, FALSE}
  MaxQueues = 1
  MaxEntries = 2
  MaxFaults = 1
SYMMETRY Symmetry
INVARIANTS TypeOK LogMatchesQueue CountsExact JoinsCounted
PROPERTY LockedQueueFrozen
CHECK_DEADLOCK FALSE
