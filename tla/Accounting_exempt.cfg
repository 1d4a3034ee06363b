\* Accounting is switched off for a key that is shaped.
SPECIFICATION FairSpec
CONSTANTS
    Initial = 1
    TopUp = 1
    MaxSaved = 1
    NKeys = 1
    InitKeys = {1}
    NThreads = 1
    LastDay = 1
    MaxSent = 1
    Requests = {"register", "exempt"}
    MaxEdits = 2
PROPERTY ExemptIsUnlimited
