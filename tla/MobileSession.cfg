CONSTANTS
  ann = ann
  bob = bob
  k1 = k1
  k2 = k2
  k3 = k3
  User = {ann}
  Task = {k1, k2}
  Token = {1, 2, 3}
  Owner <- MCOwner
  MaxWrites = 1
  NoUser = NoUser
  NoToken = NoToken
  NoTask = NoTask
SPECIFICATION Spec
INVARIANTS TypeOK PresentsGoodToken
PROPERTIES StoredAsHeld EverythingSettles
