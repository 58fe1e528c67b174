SPECIFICATION Spec
CONSTANTS
    p1 = p1
    NoPeer = NoPeer
    Peers <- OnePeer
    ProbeInterval = 9
    MissedProbes = 2
    DialBackoff <- Dial
    UnreachableAfter = 2
    UnreachableBackoff <- Unreachable
    UpgradeBackoff <- Upgrade
    StableAfter = 2
    RedialWindow = 3
    JitterPermille = 0
    DialPeers = TRUE
    AttemptCap = 1
    ProbeTimeout = 1
    InterestCeiling = 1
    HasWatch = TRUE
    Seeds <- UpSeed
    Jitter <- NoJitter
    MaxTime = 3
    MaxDrops = 1
    MaxChanges = 0
    MaxPeerEvents = 2
    MaxTasks = 2
CHECK_DEADLOCK FALSE
INVARIANTS
    WantedPeerIsDialled
PROPERTY
    TickSpendsItsWake
