SPECIFICATION MCSpec
CONSTANTS
    Callers = {c1, c2}
    Plans = {p1, p2}
    PendingTTL = 1
    Retention = 1
    MaxTime = 2
    MaxCalls = 3
    Deployments <- MCDeployments
    Senders = {1, 2}
    MaxAttempts = 3
    Window = 2
    KeyRetention = 3
    MaxDelay = 3
    MaxAge = 4
    None = None
SYMMETRY Symmetry
INVARIANTS
    RetriesAreSafe
    MailedTruthfully
PROPERTIES
    SoldUnderContext
    ConsumedOnceUntilPurged
    LearnsOnEvidence
    ActsOnRecordedApproval
    InferenceIsGoverned
CHECK_DEADLOCK FALSE
