CONSTANTS
    p1 = p1
    p2 = p2
    src = src
    conf = conf
    c1 = c1
    c2 = c2
    t1 = t1
    Absent = Absent
    Torn = Torn
    NoTag = NoTag
    Procs = {p1, p2}
    Files = {}
    Sources = {}
    Contents = {}
    Tags = {t1}
    RestoreOptions <- NoRestore
    PruneOptions <- KeepPrunes
    MaxSnapshots = 3
    MaxClock = 1
    MaxJobs = 5
    MaxEdits = 0
SYMMETRY Symmetric
SPECIFICATION Spec
CHECK_DEADLOCK FALSE
PROPERTIES
    KeepsEnough
