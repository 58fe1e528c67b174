CONSTANTS
    Runs = {r1, r2}
    MaxInsts = 2
    MaxLives = 2
    MaxGen = 2
    MaxTries = 1
    MaxSpawns = 1
    DropTexts = {FALSE}
    Requests = {"Disconnect", "DisconnectOrphan"}
SPECIFICATION FairSpec
INVARIANTS
    TypeOK
    SignedOutExclusive
    SigningInOwned
PROPERTY
    ReconnectSettles
