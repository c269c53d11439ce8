SPECIFICATION Spec
CONSTANTS
  ann = ann
  bob = bob
  h1 = h1
  h2 = h2
  h3 = h3
  q1 = q1
  q2 = q2
  q3 = q3
  NoRequest = NoRequest
  Idle = Idle
  User <- Users
  Handler <- Handlers
  RequestId <- Requests
SYMMETRY Symmetric
INVARIANTS
  TypeOK
  NoFriendshipWhileBlocked
PROPERTIES
  FriendshipFromPending
  ImplementsRelationship
