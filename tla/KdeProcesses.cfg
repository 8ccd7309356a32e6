SPECIFICATION Spec
CONSTANTS
    None = None
    Procs = {p1, p2}
    Tasks = {t1, t2, t3}
    Windows = {w1}
    Unreadable = {}
    KindsUsed <- TwoMaps
SYMMETRY Symmetry
INVARIANTS SenderHeld AnswerOwnOrOrphaned
CHECK_DEADLOCK FALSE
