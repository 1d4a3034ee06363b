\* Two keys, in all interleavings with requests; or a key is added, and the
\* old thread's last pass meets the new thread's.
SPECIFICATION Spec
CONSTANTS
    Initial = 2
    TopUp = 1
    MaxSaved = 2
    NKeys = 2
    InitKeys = {1, 2}
    NThreads = 2
    LastDay = 2
    MaxSent = 2
    Requests = {"register", "deregister", "activate", "deactivate", "credit", "exempt", "include", "restart"}
    MaxEdits = 2
CONSTRAINT Bounds
INVARIANTS
    TypeOK
    TrafficConserved
    OneRowPerDay
    ListedOnce
