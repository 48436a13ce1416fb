SPECIFICATION FairEngineSpec
CONSTANTS
    NumCases = 2
    Repeats = 1
    RetryMax = 1
    Answers = {"PASS", "FAIL", "timed_out", "cancelled", "raises"}
    AsyncTarget = TRUE
    MaxUpsets = 2
    NULL = NULL
INVARIANTS  CompleteRunSettled
PROPERTIES RunLands
CHECK_DEADLOCK FALSE
