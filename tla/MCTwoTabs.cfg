SPECIFICATION Spec
CONSTANTS
  Conns = {c1, c2}
  Users = {u1}
  Queues = {q1}
  Lobby = Lobby
  None = None
  MaxBroadcasts = 1
  MaxPurge = 1
  MayCrash = FALSE
PROPERTY BadLocationReachesUser
CHECK_DEADLOCK FALSE
