CONSTANTS
    Runs = {r1, r2}
    MaxInsts = 2
    MaxLives = 2
    MaxGen = 2
    MaxTries = 1
    MaxSpawns = 1
    DropTexts = {FALSE}
    Requests = {}
SPECIFICATION Spec
INVARIANT
    UpLinkNoticed
