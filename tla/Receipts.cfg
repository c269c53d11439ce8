SPECIFICATION Spec
CONSTANTS
  ann = ann
  h1 = h1
  h2 = h2
  User = {ann}
  Handler = {h1, h2}
  ServedUser <- Served
  LastPlace = 2
  Idle = Idle
SYMMETRY HandlersAlike
INVARIANTS
  TypeOK
  SettledPointersKept
PROPERTIES
  ReadWithinDelivered
  ReceiptsKeepUp
