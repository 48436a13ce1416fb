SPECIFICATION BackgroundSpec
CONSTANTS
    Jobs = {j1, j2}
    Workers = {w1, w2}
    MaxAttempts = 2
    LeaseSeconds = 2
    MaxLag = 1
    MaxCancels = 2
    Backend = "sqlite"
    NULL = NULL
    Proposals <- MCProposals
    Days = {1, 2}
    Gaps = {2}
    ByHand = {header}
    Sweepers = {s1, s2}
    Runners = 1
    MaxLeases = 2
    MaxMishaps = 1
    PlanCost = 2
    Tokens = {"final", "note", "json", "colon", "more", "n"}
    MaxReceived = 7
    MaxChunk = 2
    MaxFrameBytes = 3
    MaxFrames = 1
    Scripts <- MCScripts
    Installers = {i1, i2}
    Secrets = {k1, k2}
    MaxWrites = 2
    MaxDeaths = 2
    Nothing = Nothing
CHECK_DEADLOCK FALSE
INVARIANTS
    RowsConsistent
    OutboxTellsStatus
    SlotRunsOnce
    ConversationsAreWhole
    InstallationAgrees
PROPERTIES
    TerminalIsFinal
    ImplementsLifecycle
