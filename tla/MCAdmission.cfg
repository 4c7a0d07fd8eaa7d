SPECIFICATION Spec
CONSTANTS
    HardCachePct = 19
    SoftCachePct = 16
    MinHardCachePct = 12
    StressMargin = 2
    CalmDuration = 2
    Weight = 2
    QueueBudget = 3
    Samples <- MCSamples
    Waits = {0, 2}
    Counts = {1, 2}
INVARIANTS
    TypeOK
    CapInBand
    StaleAdmits
PROPERTIES
    RaiseNeedsCalm
    SilenceAdmits
    QuietRestoresCap
