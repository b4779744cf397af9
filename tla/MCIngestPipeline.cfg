SPECIFICATION FairSpec
CONSTANTS
    a1 = a1
    a2 = a2
    Atom = {a1, a2}
    Configs <- MCConfigs
    MaxAttempts = 2
    MaxRuns = 3
INVARIANTS
    TypeOK
    DoneMeansIndexed
    CheckpointedIsStored
    RetryBudget
PROPERTIES
    CompletedStageIsFrozen
    RunEnds
    ImplementsContract
CHECK_DEADLOCK FALSE
