SPECIFICATION Spec
CONSTANTS
    Tasks = {t1}
    Nil = Nil
    Threads = {w1, w2}
    Children = {c1}
    TimeLimit = 1
    MaxAge = 2
    Retention = 3
    MaxClock = 4
    MaxFaults = 2
    QueueLimit = 0
    CooldownOn = FALSE
SYMMETRY ThreadSymmetry
CHECK_DEADLOCK FALSE
INVARIANTS
    TypeOK
    RecordsConsistent
    CopiesSound
    NoAbandonedRun
PROPERTIES
    InputPreserved
    NoSkippedStart
    SuccessNotReopened
    ImplementsRegister
