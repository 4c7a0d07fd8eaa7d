SPECIFICATION Spec
CONSTANTS
    w1 = w1
    w2 = w2
    Writers = {w1, w2}
    Retention = 1
    RingMax = 1
    MaxEntries = 3
    MaxDay = 2
    MaxFailures = 2
    MaxCrashes = 0
    Absent = Absent
    Broken = Broken
INVARIANTS
    ReadableIfGzipFails
CHECK_DEADLOCK FALSE
