SPECIFICATION FairSpec
CONSTANTS
    Tasks = {t1}
    Places = {p1}
    Nil = Nil
    MaxStops = 2
    MaxVehicles = 2
    PollTimeout = 1
    MaxClock = 3
    MaxReloads = 1
    MaxMishaps = 1
CHECK_DEADLOCK FALSE
PROPERTIES
    NotBusyForever
