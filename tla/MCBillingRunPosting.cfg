CONSTANTS
    p1 = p1
    p2 = p2
    Runs = {r1, r2}
    NoRun = NoRun
    Plans = {p1, p2}
    PlanOf <- PlanEach
    NumSettlements = 3
    Monitoring = {}
    Blockable = {1}
    Closable = {2}
    Workers = {w1, w2}
    BatchSize = 3
    MaxEdits = 0
    MaxDiscards = 0
SPECIFICATION FairSpec
CHECK_DEADLOCK FALSE
INVARIANT
    PostedRunIsComplete
PROPERTY
    RequestsEnd
