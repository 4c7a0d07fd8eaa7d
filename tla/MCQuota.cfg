SPECIFICATION Spec
CONSTANTS
    Days <- MCDays
    NumMonths <- MCNumMonths
    MonthStart <- MCMonthStart
    Limit <- MCLimit
    Users = {u1}
    Requests = {r1, r2}
    MaxTokens = 2
    Backends = {"memory", "sqlite", "redis"}
INVARIANTS
    TypeOK
    OvershootBounded
    NeverUndercounts
    OnlyOverflowDelaysReset
