CONSTANTS
    b1 = b1
    m1 = m1
    NoConn = NoConn
    Bots = {b1}
    Monitors = {m1}
    Backlog = 1
    AuthRequired = FALSE
    DbMayFail = TRUE
    MaxStarts = 2
    LossKinds = {"closed"}
    MaxLosses = 0
SPECIFICATION Spec
INVARIANTS
    TypeOK
    OneOutstanding
    ReportsAreReal
    AgentResultMeansOneRun
    OnlineMeansAnswered
