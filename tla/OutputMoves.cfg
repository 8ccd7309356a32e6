SPECIFICATION Spec
CONSTANTS
    None = None
    A = A
    B = B
    Connectors = {A, B}
    Modes = {2, 4}
    Scales = {1, 2}
    Coordinates = {3}
    Ops = {"list", "move", "moveto", "relative", "button"}
    MaxChanges = 2
    MaxCommands = 2
SYMMETRY Symmetry
INVARIANT AttachedOnce
PROPERTIES OutputsFresh MoveLands
CHECK_DEADLOCK FALSE
