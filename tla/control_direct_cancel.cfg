SPECIFICATION ControlSpec
CONSTANTS
    Calls = {c1, c2}
    MaxStarts = 2
    MaxFaults = 2
    NoCall = NoCall
PROPERTIES
    CancelIsConfirmed
CHECK_DEADLOCK FALSE
