SPECIFICATION Spec
CONSTANTS
    None = None
    Procs = {p1}
    Tasks = {t1, t2}
    Windows = {w1, w2}
    Unreadable = {w2}
    KindsUsed <- ReadsAndActivate
INVARIANTS SuccessIsOwnResult NotFoundMeansAbsent
PROPERTIES CallsReturn ImplementsWindowService
CHECK_DEADLOCK FALSE
