SPECIFICATION FairSpec
CONSTANTS
  MaxTabs = 2
  Comments = {c1}
  Places = {p1, p2}
  Empty = Empty
  None = None
  MaxInputs = 5
  MaxUnderway = 2
INVARIANTS TypeOK FormAgrees UpdatesMeetTheirStay
PROPERTIES HelpKept ExchangeShrinks Settles
CHECK_DEADLOCK FALSE
