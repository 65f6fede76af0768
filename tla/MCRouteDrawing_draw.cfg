SPECIFICATION Spec
CONSTANTS
    Results <- SmallResults
    MaxIntermediates = 1
    MaxDrawings = 2
CHECK_DEADLOCK FALSE
INVARIANTS
    TypeOK
    NothingStray
    KeptAreWhole
    EveryVehicleAccounted
