SPECIFICATION Spec
CONSTANTS
    Tasks = {t1, t2, t3}
    Nil = Nil
    Threads = {w1, w2}
    Children = {c1}
    TimeLimit = 1
    MaxAge = 2
    Retention = 4
    MaxClock = 0
    MaxFaults = 1
    QueueLimit = 1
    CooldownOn = TRUE
SYMMETRY ThreadSymmetry
CHECK_DEADLOCK FALSE
INVARIANTS
    QueueBound
