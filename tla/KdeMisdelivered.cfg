SPECIFICATION Spec
CONSTANTS
    None = None
    Procs = {p1, p2}
    Tasks = {t1, t2}
    Windows = {w1, w2}
    Unreadable = {}
    KindsUsed <- Actions
INVARIANT SuccessIsOwnResult
CHECK_DEADLOCK FALSE
