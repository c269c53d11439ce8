SPECIFICATION Spec
CONSTANTS
  ann = ann
  phone = phone
  web = web
  j1 = j1
  j2 = j2
  User = {ann}
  Device = {phone, web}
  Token = {1, 2, 3}
  Job = {j1, j2}
  NoToken = NoToken
  NoDevice = NoDevice
  Owner <- Owners
INVARIANTS
  TypeOK
  OneTokenPerDevice
PROPERTIES
  ImplementsSessionStore
  EveryCallAnswered
CHECK_DEADLOCK FALSE
