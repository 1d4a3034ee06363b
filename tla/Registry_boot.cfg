\* Two stops at any step, with the restart the systemd unit asks for.
SPECIFICATION Spec
CONSTANTS
    Keys = {k1}
    Ips = {i1}
    Macs = {m1}
    NoKey = NoKey
    MaxRegs = 2
    MaxRules = 2
    MaxStops = 2
SYMMETRY Symmetry
CHECK_DEADLOCK FALSE
INVARIANT RestartPossible
