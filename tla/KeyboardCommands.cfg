SPECIFICATION Spec
CONSTANTS
    Layout <- SmallLayout
    BitOf <- Bitmap
    Foreign <- OneForeign
    Leaves <- Tokens
    MaxMods = 2
    MaxCommands = 3
    MaxLag = 1
    Ops <- AllOps
INVARIANTS MaskTracksKeys KeysymRead NothingLeft ExitLosesNothing
CHECK_DEADLOCK FALSE
