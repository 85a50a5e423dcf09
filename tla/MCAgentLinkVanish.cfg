CONSTANTS
    b1 = b1
    m1 = m1
    NoConn = NoConn
    Bots = {b1}
    Monitors = {m1}
    Backlog = 1
    AuthRequired = FALSE
    DbMayFail = FALSE
    MaxStarts = 1
    LossKinds = {"closed", "vanished"}
    MaxLosses = 1
SPECIFICATION FairSpec
PROPERTIES
    ShutdownCompletes
