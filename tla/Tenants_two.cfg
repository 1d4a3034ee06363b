SPECIFICATION MCSpec
CONSTANTS
  c1 = c1
  d1 = d1
  r1 = r1
  r2 = r2
  a1 = a1
  Ids = {1, 2}
  Customers = {c1}
  Dorms = {d1}
  Rooms = {r1, r2}
  Admins = {a1}
  MaxDevices = 2
  None = None
INVARIANT TypeOK
INVARIANT RoomAsAsked
PROPERTY DueIsDone
CHECK_DEADLOCK FALSE
