SPECIFICATION EvidenceSpec
CONSTANTS
    NumCases = 1
    Repeats = 2
    RetryMax = 1
    Answers = {"PASS", "FAIL", "cancelled"}
    AsyncTarget = TRUE
    MaxUpsets = 2
    NULL = NULL
    Written <- MCWritten
    Readings <- MCReadings
    MaxNesting = 2
    MaxHeight = 5
    Recorded <- MCRecorded
    Rules <- MCRules
    MaxDepth = 3
    CaseCount = 2
    Metrics <- MCMetrics
    Contents <- MCContents
    Observed <- MCObserved
    Meets <- ConditionHolds
    MaxRetries = 1
    MaxOutages = 1
    Stored <- MCStored
    Original <- MCOriginal
    Replacements <- MCReplacements
    Rescorers = {q1, q2}
    MaxRevision = 3
    MaxOverrides = 1
    LabelIds = {n1, n2}
    Verdicts = {"good", "bad"}
    Resets = {z1}
    Readers = {}
    MinLabels = 2
    MaxLapses = 1
INVARIANTS
    AttemptKeysUnique
    DecidedByFirstAttempts
    ReadsBack
    ArrivalOrderIrrelevant
    OrderIsDecided
    ResumeKeepsVerdict
    GateNeedsEvidence
    JudgeEarnsItsCalibration
PROPERTIES
    NoPassByAccident
    OldRevisionsStay
CHECK_DEADLOCK FALSE
