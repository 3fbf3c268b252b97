SPECIFICATION Spec
CONSTANTS
    r1 = r1
    r2 = r2
    k1 = k1
    k2 = k2
    f1 = f1
    Concurrent = FALSE
    RunIDs = {r1}
    Cancelers = {k1}
    Followers = {}
    Named = {r1}
    Buffer = 1
    MaxTicks = 1
INVARIANT CanceledNeverDone
