SPECIFICATION FilesSpec
CONSTANTS
    u1 = u1  w1 = w1  w2 = w2  t1 = t1  f1 = f1  f2 = f2
    Ids = {u1}
    MaxDirs = 2
    Cap = 2
    MaxBytes = 1
    MaxChunk = 1
    MaxCrashes = 1
    FreshIds = TRUE
    None = None
    Windows = {w1, w2}
    Transfers = {t1}
    Paths = {f1, f2}
    MaxPicked = 1
    MaxPicks = 2
    MaxName = 3
    MaxRaw = 4
INVARIANTS PayloadsAccounted TransfersSound
PROPERTIES PayloadLeaves KeptOfferWasTold
CHECK_DEADLOCK FALSE
