SPECIFICATION WorkerSpec
CONSTANTS
    Jobs = {j1}
    Workers = {w1, w2}
    MaxAttempts = 2
    LeaseSeconds = 1
    MaxLag = 0
    MaxCancels = 1
    MaxInterruptions = 1
    Backend = "postgres"
    NULL = NULL
CHECK_DEADLOCK FALSE
INVARIANTS
    HandlerIsWatched
PROPERTIES
    EveryJobSettles
