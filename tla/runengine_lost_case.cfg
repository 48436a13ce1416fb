SPECIFICATION EngineSpec
CONSTANTS
    NumCases = 2
    Repeats = 1
    RetryMax = 0
    Answers = {"PASS", "FAIL"}
    AsyncTarget = FALSE
    MaxUpsets = 2
    NULL = NULL
INVARIANTS EveryCaseAttempted
CHECK_DEADLOCK FALSE
