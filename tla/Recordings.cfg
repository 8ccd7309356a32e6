SPECIFICATION RecordingsSpec
CONSTANTS
    keyboard = keyboard
    keypad = keypad
    mouse = mouse
    Devices <- Desk
    KeysOf <- DeskKeys
    Mice <- MouseOnly
    Buttons <- MouseButtons
    BitOf <- Bits
    MaxInput = 4
    MinInterval = 1
    MaxClock = 2
    Threshold = 2
    Steps <- BothWays
    Places <- TwoPlaces
    Named <- KeysNamed
    Starts <- Elsewhere
INVARIANTS ReplayRepeats ChordsRepeated MotionConserved ClicksLand
CHECK_DEADLOCK FALSE
