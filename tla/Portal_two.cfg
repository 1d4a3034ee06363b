SPECIFICATION MCSpec
CONSTANTS
  d1 = d1
  d2 = d2
  i1 = i1
  i2 = i2
  k1 = k1
  k2 = k2
  u1 = u1
  Devices = {d1, d2}
  Ips = {i1, i2}
  Uplinks = {u1}
  Found <- MCFound
  Excluded = {}
  NoDevice = NoDevice
  NoIp = NoIp
  Keys = {k1, k2}
  NoKey = NoKey
  MaxDevices = 1
SYMMETRY Perms
INVARIANT TypeOK
INVARIANT DeviceLimit
PROPERTY OwnDevice
PROPERTY ClosedKeyGetsNone
PROPERTY OwnRemoval
PROPERTY LiveLeaseKept
CHECK_DEADLOCK FALSE
