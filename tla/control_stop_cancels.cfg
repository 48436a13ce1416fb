SPECIFICATION ControlSpec
CONSTANTS
    Calls = {c1, c2}
    MaxStarts = 2
    MaxFaults = 2
    NoCall = NoCall
INVARIANTS
    ShutdownCancelsNothing
CHECK_DEADLOCK FALSE
