SPECIFICATION Spec
CONSTANTS
  admin = admin
  guest = guest
  b1 = b1
  b2 = b2
  Names = {admin, guest}
  InitialName = admin
  Browsers = {b1, b2}
  MaxAccounts = 4
SYMMETRY Perms
INVARIANT TypeOK
INVARIANT SomeoneLeft
PROPERTY LastAdminGoesAlone
CHECK_DEADLOCK FALSE
