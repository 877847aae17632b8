SPECIFICATION ListSpec
CONSTANTS
  People = {p1, p2}
  Names = {n1, n2}
  Queues = {}
  Logins = {l1}
  None = None
  MaxSupers = 2
SYMMETRY Symmetry
INVARIANTS LastAdministratorStays
CHECK_DEADLOCK FALSE
