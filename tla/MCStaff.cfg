SPECIFICATION Spec
CONSTANTS
  People = {p1, p2}
  Names = {n1, n2, n3}
  Queues = {q1, q2}
  Logins = {l1, l2}
  None = None
  MaxSupers = 1
SYMMETRY Symmetry
INVARIANTS TypeOK RightPerson RolesReferToRows
PROPERTIES AuthorityFromAuthority TeachersNotDowngraded
CHECK_DEADLOCK FALSE
