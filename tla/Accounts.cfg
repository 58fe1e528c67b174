SPECIFICATION AccountsSpec
CONSTANTS
    MaxVersion = 3
    MaxChecks = 2
    MaxConsiders = 3
    MaxSets = 1
    MaxCrashes = 1
    MaxErrors = 1
    MESSAGES_PER_PAGE = 2
    MaxPage = 2
    MaxPeerIds = 2
    MaxOwnIds = 2
    MaxOps = 3
    Indices = {2}
    ByWindow = {1, 3}
    Uncounted = FALSE
    MaxFaults = 1
    LegacyOwners = {"none"}
    cid1 = cid1  t1 = t1  t2 = t2  o1 = o1  o2 = o2
    Cids = {cid1}
    MaxInits = 2
    Takers = {t1, t2}
    Openers = {o1, o2}
    MaxMessages = 3
    MaxOpens = 2
    Overlap = FALSE
    None = None
INVARIANTS UpdaterSound ConversationsSound ClientSound
CHECK_DEADLOCK FALSE
