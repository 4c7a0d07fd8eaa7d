SPECIFICATION Spec
CONSTANTS
    Days <- MCDays
    NumMonths <- MCNumMonths
    MonthStart <- MCMonthStart
    Limit <- MCLimit
    Users = {u1}
    Requests = {r1}
    MaxTokens = 2
    Backends = {"memory", "sqlite", "redis"}
INVARIANT
    MonthlyResetsOnFirst
