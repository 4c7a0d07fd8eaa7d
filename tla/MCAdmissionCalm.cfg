SPECIFICATION Spec
CONSTANTS
    HardCachePct = 19
    SoftCachePct = 16
    MinHardCachePct = 12
    StressMargin = 2
    CalmDuration = 2
    Weight = 2
    QueueBudget = 3
    Samples = {14, 20}
    Waits = {0}
    Counts = {1}
PROPERTIES
    CalmRestoresCap
