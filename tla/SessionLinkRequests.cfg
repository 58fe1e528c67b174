CONSTANTS
    Runs = {r1, r2}
    MaxInsts = 2
    MaxLives = 1
    MaxGen = 2
    MaxTries = 1
    MaxSpawns = 1
    DropTexts = {FALSE, TRUE}
    Requests = {"ForceReconnect", "Deregister", "ClaimSession"}
SPECIFICATION Spec
SYMMETRY RunSymmetry
INVARIANTS
    OneAttempt
    EndingOwned
    ReconnectingDriven
PROPERTIES
    LiveLinkKept
