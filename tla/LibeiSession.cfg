SPECIFICATION Spec
CONSTANTS
    combo = combo
    plain = plain
    tablet = tablet
    Devices = {combo, plain, tablet}
    Caps <- SomeCaps
    Layout <- SomeLayouts
    Table <- TwoLayouts
    Callers = {c1, c2}
    Requests <- SomeRequests
    MaxCalls = 2
    MaxEvents = 4
    MaxLag = 2
INVARIANTS SlotsFollowServer TypedAsAsked NothingStuck
PROPERTY ReadyMeansUsable
SYMMETRY Symmetry
CHECK_DEADLOCK FALSE
