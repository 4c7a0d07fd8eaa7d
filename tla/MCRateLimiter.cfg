SPECIFICATION RateSpec
CONSTANTS
    Callers = {c1, c2}
    Cap = 5
    Grain = 2
    MaxTime = 6
INVARIANTS
    WindowBounded
PROPERTIES
    RefillsSteadily
