SPECIFICATION FairSpec
CONSTANTS
    Tasks = {t1, t2}
    Nil = Nil
    Threads = {w1}
    Children = {c1}
    TimeLimit = 1
    MaxAge = 2
    Retention = 4
    MaxClock = 3
    MaxFaults = 0
    QueueLimit = 0
    CooldownOn = FALSE
CHECK_DEADLOCK FALSE
INVARIANTS
    AcceptedHasOwner
PROPERTIES
    AcceptedIsServed
