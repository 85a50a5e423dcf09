CONSTANTS
    p1 = p1
    p2 = p2
    src = src
    conf = conf
    c1 = c1
    c2 = c2
    t1 = t1
    Absent = Absent
    Torn = Torn
    NoTag = NoTag
    Procs = {p1}
    Files = {src, conf}
    Sources = {src}
    Contents = {c1, c2}
    Tags = {}
    RestoreOptions <- SmartOnly
    PruneOptions <- NoPrune
    MaxSnapshots = 1
    MaxClock = 0
    MaxJobs = 2
    MaxEdits = 1
SPECIFICATION Spec
CHECK_DEADLOCK FALSE
PROPERTIES
    SmartKeepsSource
