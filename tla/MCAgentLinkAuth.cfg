CONSTANTS
    b1 = b1
    m1 = m1
    NoConn = NoConn
    Bots = {b1}
    Monitors = {m1}
    Backlog = 1
    AuthRequired = TRUE
    DbMayFail = TRUE
    MaxStarts = 2
    LossKinds = {"closed"}
    MaxLosses = 1
SPECIFICATION Spec
INVARIANTS
    TokenGuardsScripts
