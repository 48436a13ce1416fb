SPECIFICATION ServicesSpec
CONSTANTS
    Requests = {r1, r2, r3}
    Total = 4
    Worst <- WorstCases
    Bills <- BillSizes
    Calls = {c1, c2}
    MaxStarts = 2
    MaxFaults = 2
    NoCall = NoCall
    Artifact = {a1, a2}
    Version = {v1}
    MaxCrashes = 2
    Free = Free
    Processes = {p1, p2}
    Size = 3
    MaxWaiting = 1
    MaxLosses = 1
    Hosts = {h1, h2}
    MaxSlips = 2
    MaxClock = 1
    MaxLines = 3
    MaxTrace = 2
    EventCap = 2
INVARIANTS
    BudgetHonored
    SpentCoversBills
    OneWriter
    WorkerReachable
    CompletedJobHasOutcome
    CommittedHasFile
    ReferencedExists
    FairShare
    NothingLeftBehind
    UndisturbedSession
    ContainerRunsItsSnapshot
    KeysFollowEmission
    EvidenceIsWhole
CHECK_DEADLOCK FALSE
