SPECIFICATION Spec
CONSTANTS
  Users = {u1, u2}
  Settings = {"hiding"}
  Helps = {TRUE, FALSE}
  MaxQueues = 1
  MaxEntries = 1
  MaxFaults = 0
PROPERTY HidingPurges
CHECK_DEADLOCK FALSE
