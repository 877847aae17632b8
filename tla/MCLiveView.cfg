SPECIFICATION LiveSpec
CONSTANTS
  Queues = {q1, q2}
  Existing = {q1, q2}
  Lobby = Lobby
  None = None
  MaxBreaks = 1
  MaxGets = 2
  MaxClicks = 0
  MaxQueued = 2
  Users = {u1, u2}
  Shown = q1
  MaxChanges = 2
  MaxLoads = 1
VIEW View
SYMMETRY Symmetry
INVARIANTS LiveTypeOK
PROPERTIES StaysRight StaysExact
CHECK_DEADLOCK FALSE
