SPECIFICATION ForgetfulFairSpec
CONSTANTS
    Tasks = {t1}
    Nil = Nil
    Threads = {w1}
    Children = {c1}
    TimeLimit = 1
    MaxAge = 2
    Retention = 4
    MaxClock = 3
    MaxFaults = 1
    QueueLimit = 0
    CooldownOn = FALSE
CHECK_DEADLOCK FALSE
INVARIANTS
    RecordsConsistent
    CopiesSound
PROPERTIES
    EventuallySettled
