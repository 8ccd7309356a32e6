SPECIFICATION Spec
CONSTANTS
    None = None
    w1 = w1
    w2 = w2
    w3 = w3
    Tasks = {t1, t2}
    Windows = {w1, w2, w3}
    Existing <- TwoWindows
    MaxHandles = 2
    KindsUsed <- ListAndAct
    Retitles = FALSE
    Loses = TRUE
    Renews = FALSE
    MaxChanges = 2
INVARIANTS VerdictHonest ActsOnWanted
PROPERTIES ActionLands CallsReturn
CHECK_DEADLOCK FALSE
