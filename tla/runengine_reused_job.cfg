SPECIFICATION EngineSpec
CONSTANTS
    NumCases = 1
    Repeats = 2
    RetryMax = 0
    Answers = {"PASS"}
    AsyncTarget = TRUE
    MaxUpsets = 1
    NULL = NULL
INVARIANTS RemoteJobAnswersOnce
CHECK_DEADLOCK FALSE
