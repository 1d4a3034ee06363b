\* One device that comes back under a new number: with one key and two stops of
\* the process, or with two keys, one after the other.
SPECIFICATION Spec
CONSTANTS
    Keys = {k1, k2}
    Ips = {i1}
    Macs = {m1}
    NoKey = NoKey
    MaxRegs = 2
    MaxRules = 2
    MaxStops = 2
SYMMETRY Symmetry
CONSTRAINT TwoKeys
CHECK_DEADLOCK FALSE
INVARIANTS
    UniqueAddresses
    OrphansExplained
    FirewallInSync
    AccountingInSync
    ShapingInSync
PROPERTY RemovalRemoves
