SPECIFICATION Spec
CONSTANTS
    MaxStops = 2
    MaxInt = 1000
    Bodies <- AnyBody
CHECK_DEADLOCK FALSE
INVARIANTS
    SolvedIffWellFormed
    AcceptedIsSolved
    RejectedForCause
