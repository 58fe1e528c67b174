SPECIFICATION FairSpec
CONSTANTS
    m1 = m1  m2 = m2  m3 = m3  c1 = c1  c2 = c2  c3 = c3
    Messages = {m1, m2}
    Workers = {c1, c2, c3}
    Absent = Absent
    NoOne = NoOne
    MaxLosses = 1
INVARIANTS TypeOK KeptUnlessRaced
PROPERTIES MutationEnds
