SPECIFICATION TransactionsSpec
CONSTANTS
    Jobs = {j1}
    Workers = {w1, w2}
    MaxAttempts = 3
    LeaseSeconds = 2
    MaxLag = 1
    MaxCancels = 3
    Backend = "postgres"
    NULL = NULL
    Editors = {e1}
    Sessions = {s1, s2}
    Turns = {t1, t2, t3}
    MaxVersions = 4
    Nobody = Nobody
CHECK_DEADLOCK FALSE
INVARIANTS
    TurnIsAtomic
    OneTurnPerRevision
PROPERTIES
    EffectsFenced
    ResultWrittenOnce
    ImplementsAtomicEditing
