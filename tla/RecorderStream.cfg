SPECIFICATION Spec
CONSTANTS
    Pumps = {d1, d2}
    Main = d1
    Capacity = 2
    MaxEvents = 3
    Backends <- AnyBackend
    Streaming = TRUE
INVARIANTS InOrder NothingSkipped StopReturnsAll
PROPERTIES InputCaptured PumpsEnd StopReturns
CHECK_DEADLOCK FALSE
