SPECIFICATION FairSpec
CONSTANTS
  Queues = {q1}
  Home = Home
  Administration = Administration
  None = None
  MaxListed = 2
  MaxTimers = 1
INVARIANTS TypeOK OfferedIsAllowed
PROPERTIES FirstInFirstShown EveryDialogShown
CHECK_DEADLOCK FALSE
