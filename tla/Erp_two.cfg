SPECIFICATION MCSpec
CONSTANTS
  c1 = c1
  c2 = c2
  d1 = d1
  r1 = r1
  a1 = a1
  Ids = {1, 2}
  Customers = {c1, c2}
  Dorms = {d1}
  Rooms = {r1}
  Admins = {a1}
  MaxDevices = 1
  None = None
SYMMETRY Swap
INVARIANT RowsOK
INVARIANT UpdatesMatchErp
INVARIANT ShownOnce
CHECK_DEADLOCK FALSE
