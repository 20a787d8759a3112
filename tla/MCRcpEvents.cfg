CONSTANTS
    Modulus = 64
    Half = 32
    Tasks = {"gfx", "audio"}
    Near = 16
    Capacity = 8
    CountPerOp = 1
    BootCount = 2
    FirstVi = 1
    Delays <- MCDelays
    SpDelays <- MCSpDelays
    ResetDelay = 3
    Lags = {2}
    MaxLine = 1
    MaxRare = 2
    Masks <- MCMasks
    Lines <- MCLines
    Compares = {3, 40}
    Counts = {0, 40}
    Programs <- MCPrograms
SPECIFICATION FairSpec
INVARIANTS OneSpecial BusyHasEvent PendingIsChecked DueIsSeen NeverEarly
PROPERTIES TransfersEnd AudioAdvances
