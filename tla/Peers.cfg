SPECIFICATION PeersSpec
CONSTANTS
    a1 = a1  a2 = a2  g1 = g1
    Callers = {a1, a2}
    MaxCalls = 2
    MaxOffers = 2
    MaxConns = 2
    MaxRegs = 1
    MaxEnds = 1
    MaxEvents = 4
    Policies = {"relay_only"}
    GroupKeys = {g1}
    MaxChannels = 2
    MaxNews = 2
    MaxSdk = 2
    k1 = k1  k2 = k2  r1 = r1  r2 = r2
    PulledKeys = {k1, k2}
    MaxPulls = 2
    Readers = {r1, r2}
    MaxReads = 2
    Total = 2
    MaxForeign = 1
    MaxKept = 1
    Returns = FALSE
    InPlace = FALSE
    None = None
SYMMETRY Sym
INVARIANTS PeersSound GroupsSound PullsSound
CHECK_DEADLOCK FALSE
