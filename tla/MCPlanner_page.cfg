SPECIFICATION Spec
CONSTANTS
    Tasks = {t1, t2}
    Places = {p1, p2}
    Nil = Nil
    MaxStops = 2
    MaxVehicles = 2
    PollTimeout = 2
    MaxClock = 3
    MaxReloads = 2
    MaxMishaps = 1
CHECK_DEADLOCK FALSE
INVARIANTS
    TypeOK
    SinglePollChain
    OneMode
    ScreenIsPosted
    PendingIsStored
    RoutesOfOneResult
    PageSound
    NoMapNoSubmit
