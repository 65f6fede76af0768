SPECIFICATION FairSpec
CONSTANTS
    Eps = 2
    MaxStops = 5
    Places <- RhombusPlaces
    Distance <- CloseDistance
    Inputs <- RhombusInputs
    Iterations = 0
CHECK_DEADLOCK FALSE
PROPERTIES
    Terminates
