SPECIFICATION Spec
CONSTANTS
  Conns = {c1, c2}
  Users = {u1, u2}
  Queues = {q1, q2}
  Lobby = Lobby
  None = None
  MaxBroadcasts = 1
  MaxPurge = 1
  MayCrash = TRUE
SYMMETRY Symmetry
INVARIANTS TypeOK RoomMembership LiveConnections ExactlyOnce DirectMessageAudience SingleUserNotStale SingleConnectionReachable
PROPERTY SubscriptionService
CHECK_DEADLOCK FALSE
