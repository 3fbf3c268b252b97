SPECIFICATION Spec
CONSTANTS
    Total = 3
    Users = 2
    MaxInflight = 2
    Capacity = 2
    Steps = 2
    Mixed = TRUE
    MaxIterations = 2
INVARIANT VerdictOnlyOnMeasurement
