SPECIFICATION FairSpec
CONSTANTS
    Eps = 2
    MaxStops = 5
    Places <- EndPlaces
    Distance <- FarDistance
    Inputs <- EndInputs
    Iterations = 1
CHECK_DEADLOCK FALSE
PROPERTIES
    Terminates
