SPECIFICATION Spec
CONSTANTS
    w1 = w1
    w2 = w2
    c1 = c1
    c2 = c2
    c3 = c3
    r1 = r1
    r2 = r2
    Waiters = {w1}
    Correlations = {c1, c2, c3}
    Readers = {r1}
    Cap = 2
    MaxMessages = 3
PROPERTY EvictsOnlyAtCap
