SPECIFICATION Spec
CONSTANTS
  Conns = {c1, c2}
  Users = {}
  Queues = {q1}
  Lobby = Lobby
  None = None
  MaxBroadcasts = 1
  MaxPurge = 1
  MayCrash = FALSE
PROPERTY DuplicateQueueRefused
CHECK_DEADLOCK FALSE
