SPECIFICATION Spec
CONSTANTS
    Total = 2
    Users = 1
    MaxInflight = 1
    Capacity = 2
    Steps = 1
    Mixed = FALSE
    MaxIterations = 1
INVARIANT CutShortComesOutInvalid
