\* What a pass does sooner or later, with one accounting thread.
SPECIFICATION LiveSpec
CONSTANTS
    Initial = 1
    TopUp = 1
    MaxSaved = 1
    NKeys = 2
    InitKeys = {2}
    NThreads = 1
    LastDay = 2
    MaxSent = 1
    Requests = {"register", "deregister", "credit"}
    MaxEdits = 2
PROPERTIES
    UsedUpIsSlowed
    VolumeIsSpeed
    DailyRow
