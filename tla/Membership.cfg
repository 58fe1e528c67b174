SPECIFICATION Spec
CONSTANTS
    w1 = w1  w2 = w2  w3 = w3  a1 = a1  a2 = a2  t1 = t1  t2 = t2
    Conns = {w1, w2, w3}
    Cids = {a1, a2}
    Tasks = {t1, t2}
    None = None
    MaxLives = 2
    MaxRequests = 4
SYMMETRY Sym
INVARIANTS TypeOK StoppedStaysStopped DisplacedAreTold
PROPERTY LockedDoorsExclude
