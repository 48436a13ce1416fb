SPECIFICATION QueueSpec
CONSTANTS
    Jobs = {j1, j2}
    Workers = {w1, w2}
    MaxAttempts = 2
    LeaseSeconds = 2
    MaxLag = 1
    MaxCancels = 2
    Backend = "postgres"
    NULL = NULL
SYMMETRY Symmetry
CHECK_DEADLOCK FALSE
PROPERTIES
    TerminalIsFinal
