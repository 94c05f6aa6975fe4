SPECIFICATION MCSpec
CONSTANTS
    Leaves <- AllLeaves
    MaxLeaves = 2
INVARIANTS
    RetriesOnlyWhatIsSafe
    TrailTellsTheTruth
PROPERTIES
    DeletedOnStandingWord
    GrantsAppliedOnce
    RecoveryIsPossible
    PinChangesValidated
    ReadsAreOnRecord
    StoreLimitsHold
    SettingsMatchEvidence
    BootstrapRepeatable
CHECK_DEADLOCK FALSE
