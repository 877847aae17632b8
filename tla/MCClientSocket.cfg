SPECIFICATION FairSpec
CONSTANTS
  Queues = {q1, q2}
  Existing = {q1}
  Lobby = Lobby
  None = None
  MaxBreaks = 2
  MaxGets = 2
  MaxClicks = 2
  MaxQueued = 3
INVARIANTS TypeOK SubscribedToPage HearsItsRoom RequestedOnce
PROPERTIES EndsUpSubscribed LoadsAfterLoss
CHECK_DEADLOCK FALSE
