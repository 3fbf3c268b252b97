SPECIFICATION FairSpec
CONSTANTS
    Total = 3
    Users = 2
    MaxInflight = 2
    Capacity = 1
    Steps = 2
    Mixed = FALSE
    MaxIterations = 2
INVARIANTS
    TypeOK
    InflightBounded
    NoRecordAfterClose
    EverySampleAccounted
    EveryArrivalAccounted
    OneArrivalAfterCancel
    VerdictOnlyOnMeasurement
PROPERTIES
    RunEnds
    KeepsBooks
