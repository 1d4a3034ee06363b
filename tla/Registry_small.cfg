\* One key with two devices, in all interleavings of the three threads.
SPECIFICATION Spec
CONSTANTS
    Keys = {k1}
    Ips = {i1, i2}
    Macs = {m1, m2}
    NoKey = NoKey
    MaxRegs = 2
    MaxRules = 1
    MaxStops = 0
SYMMETRY Symmetry
CHECK_DEADLOCK FALSE
INVARIANTS
    TypeOK
    UniqueAddresses
    PairsBacked
    OrphansExplained
    FirewallInSync
    AccountingInSync
    ShapingInSync
PROPERTY ImplementsDeviceRegistry
