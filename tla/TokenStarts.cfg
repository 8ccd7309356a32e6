SPECIFICATION Spec
CONSTANTS
    Runs = {r1, r2}
    Pids = {k1, k2}
    SharePid = FALSE
    MaxToken = 3
    MaxStarts = 4
    Junk = Junk
    None = None
SYMMETRY Symmetry
INVARIANTS FileWhole PromptsOnce TokenUsable
PROPERTY OldFileKept
CHECK_DEADLOCK FALSE
