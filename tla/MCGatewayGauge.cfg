SPECIFICATION Spec
CONSTANTS
    u1 = u1
    m1 = m1
    m2 = m2
    Callers <- MCCallers
    Users = {u1}
    Cap = 1
    Grain = 1
    MaxTime = 0
    Models = {m1, m2}
    Ports = {p1}
    NoPort = NoPort
    Serves <- MCServes
    MaxDeploys = 0
    Slots = {s1}
    Access <- MCAccess
    Paths <- MCPaths
    Starts <- MCStarts
    MaxArrivals = 2
INVARIANTS
    GaugeIsInProgress
