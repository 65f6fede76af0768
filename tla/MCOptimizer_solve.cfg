SPECIFICATION Spec
CONSTANTS
    Eps = 2
    MaxStops = 5
    Places <- SolvePlaces
    Distance <- FarDistance
    Inputs <- SolveInputs
    Iterations = 2
CHECK_DEADLOCK FALSE
INVARIANTS
    TypeOK
    EachStopOnce
    EveryVehicleDrives
    DistancesAreCurrent
    PredictionsAreExact
    ResultIsLocalOptimum
PROPERTIES
    ImplementsAssignment
