SPECIFICATION Spec
CONSTANTS
    g1 = g1
    g2 = g2
    Goroutines <- MCGoroutines
    Scenarios <- MCScenarios
    Faults = {"refused", "late"}
    Rows = 2
    MaxRuns = 2
    MaxIterations = 3
    MaxClock = 2
    MaxPolls = 1
    MaxDrops = 1
INVARIANTS
    TypeOK
    OwnValues
    TokenNotPerRequest
    EachLineInTurn
    NoUseAfterClose
    OwnTLS
    OwnLagIsFinal

    
