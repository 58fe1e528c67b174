SPECIFICATION Spec
CONSTANTS
    p1 = p1
    NoPeer = NoPeer
    Peers <- NoPeers
    ProbeInterval = 2
    MissedProbes = 2
    DialBackoff <- Dial
    UnreachableAfter = 2
    UnreachableBackoff <- Unreachable
    UpgradeBackoff <- Upgrade
    StableAfter = 2
    RedialWindow = 3
    JitterPermille = 0
    DialPeers = TRUE
    AttemptCap = 1
    ProbeTimeout = 1
    InterestCeiling = 2
    HasWatch = TRUE
    Seeds <- BothSeeds
    Jitter <- NoJitter
    MaxTime = 5
    MaxDrops = 1
    MaxChanges = 1
    MaxPeerEvents = 0
    MaxTasks = 3
CHECK_DEADLOCK FALSE
INVARIANTS
    TypeOK
    ForceIsAnswered
    ProbeIsOut
    OutageIsShown
