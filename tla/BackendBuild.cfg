SPECIFICATION Spec
CONSTANT MaxSessions = 3
INVARIANTS OneFailedStart FirstThatStarts
PROPERTY BuildReturns
CHECK_DEADLOCK FALSE
