SPECIFICATION Spec
CONSTANTS
    None = None
    w1 = w1
    w2 = w2
    w3 = w3
    Tasks = {t1, t2}
    Windows = {w1, w2}
    Existing <- OneWindow
    MaxHandles = 2
    KindsUsed <- Reads
    Retitles = TRUE
    Loses = FALSE
    Renews = TRUE
    MaxChanges = 2
INVARIANT FreshRead
PROPERTY WorkerExits
CHECK_DEADLOCK FALSE
