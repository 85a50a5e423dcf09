CONSTANTS
    p1 = p1
    p2 = p2
    src = src
    conf = conf
    c1 = c1
    c2 = c2
    t1 = t1
    Absent = Absent
    Torn = Torn
    NoTag = NoTag
    Procs = {p1, p2}
    Files = {conf}
    Sources = {}
    Contents = {c1}
    Tags = {}
    RestoreOptions <- FullOnly
    PruneOptions <- OldPrunes
    MaxSnapshots = 2
    MaxClock = 2
    MaxJobs = 4
    MaxEdits = 0
SYMMETRY Symmetric
SPECIFICATION Spec
CHECK_DEADLOCK FALSE
INVARIANTS
    TypeOK
    NoStaleStorage
    HistoryHonest
