SPECIFICATION Spec
CONSTANTS
  ann = ann
  bob = bob
  annPhone = annPhone
  annTablet = annTablet
  bobWeb = bobWeb
  User = {ann, bob}
  Socket = {annPhone, annTablet, bobWeb}
  Web = {bobWeb}
  Owner <- Owners
  Typist = {ann}
  MaxPending = 2
  MaxInFlight = 1
INVARIANTS
  TypeOK
  NoStuckIndicator
PROPERTIES
  TypingEnds
CHECK_DEADLOCK FALSE
