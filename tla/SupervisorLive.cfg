SPECIFICATION FairSpec
CONSTANTS
    p1 = p1
    NoPeer = NoPeer
    Peers <- NoPeers
    ProbeInterval = 2
    MissedProbes = 2
    DialBackoff <- Dial
    UnreachableAfter = 2
    UnreachableBackoff <- Unreachable
    UpgradeBackoff <- Upgrade
    StableAfter = 2
    RedialWindow = 3
    JitterPermille = 0
    DialPeers = TRUE
    AttemptCap = 1
    ProbeTimeout = 1
    InterestCeiling = 2
    HasWatch = TRUE
    Seeds <- UpSeed
    Jitter <- NoJitter
    MaxTime = 3
    MaxDrops = 1
    MaxChanges = 1
    MaxPeerEvents = 0
    MaxTasks = 2
CHECK_DEADLOCK FALSE
PROPERTY
    ForceSettles
