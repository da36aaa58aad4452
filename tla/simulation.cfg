SPECIFICATION FairSpec
CONSTANTS
    Order <- Bench
    Mode <- BenchMode
    CType <- BenchType
    Initial <- BenchInitial
    Signal <- BenchSignal
    Inputs <- BenchInputs
    MaxTime = 1
INVARIANTS
    OutputFollows
    WrittenStays
    PointWhole
PROPERTIES
    SetpointTakesEffect
    ShowsNearest
CHECK_DEADLOCK FALSE
