SPECIFICATION Spec
CONSTANTS
  User = {u1, u2, u3}
  Handler = {h1, h2}
  JoinRequest = {q1, q2}
  Decided = Decided
  None = None
INVARIANTS
  TypeOK
  OnePendingRequest
PROPERTIES
  OneOwnerKept
  OfficersStayActive
  OwnershipIsGivenUp
SYMMETRY Symmetry
CHECK_DEADLOCK FALSE
