\* Days without a turn for the key: the process is stopped, or the accounting of
\* the key switched off.
SPECIFICATION Spec
CONSTANTS
    Initial = 2
    TopUp = 1
    MaxSaved = 2
    NKeys = 1
    InitKeys = {1}
    NThreads = 1
    LastDay = 3
    MaxSent = 2
    Requests = {"register", "exempt", "include", "restart"}
    MaxEdits = 3
INVARIANT NoMoreThanSaved
