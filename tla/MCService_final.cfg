SPECIFICATION Spec
CONSTANTS
    Tasks = {t1}
    Nil = Nil
    Threads = {w1}
    Children = {c1}
    TimeLimit = 1
    MaxAge = 2
    Retention = 3
    MaxClock = 2
    MaxFaults = 0
    QueueLimit = 0
    CooldownOn = FALSE
CHECK_DEADLOCK FALSE
PROPERTIES
    TerminalIsFinal
