SPECIFICATION FairSpec
CONSTANTS
    c1 = c1
    Cids = {c1}
    Handles = {1, 2}
    None = None
    MaxTraffic = 2
    MaxAsks = 1
    GiveUpAfter = 2
CHECK_DEADLOCK FALSE
INVARIANTS TypeOK BrowserStrandsNothing StoppedLeavesNoWaiter RepliesStayInside
PROPERTIES KeepsItsPromise RequestSettles
